---- MODULE Spec2Model ----
(***************************************************************************)
(* A model of json-stream-es: the character-driven JSON parser             *)
(* (src/src/json-parser.ts), the stringifier, the serializer, the          *)
(* deserializer, the path detector and the path selector.                  *)
(*                                                                         *)
(* Text is a sequence of UTF-16 code units (integers), as a JavaScript     *)
(* string is; Ord names the code units the model uses.                     *)
(***************************************************************************)
EXTENDS Integers, Sequences, FiniteSets, TLC

(***************************************************************************)
(* Bounds                                                                  *)
(***************************************************************************)
\* longest freely generated input text, in characters
MaxLen == 4
\* most chunks a freely generated text is written in
MaxChunks == 2
\* most chunks a document is written in
MaxDocChunks == 3

(***************************************************************************)
(* Characters                                                              *)
(***************************************************************************)
Ord ==
    ("{" :> 123) @@ ("}" :> 125) @@ ("[" :> 91) @@ ("]" :> 93) @@
    (":" :> 58) @@ ("," :> 44) @@ ("\"" :> 34) @@ ("\\" :> 92) @@
    ("/" :> 47) @@ ("-" :> 45) @@ ("+" :> 43) @@ ("." :> 46) @@
    (" " :> 32) @@ ("\t" :> 9) @@ ("\n" :> 10) @@ ("\r" :> 13) @@
    ("BS" :> 8) @@ ("\f" :> 12) @@ ("RS" :> 30) @@
    ("0" :> 48) @@ ("1" :> 49) @@ ("2" :> 50) @@ ("3" :> 51) @@
    ("4" :> 52) @@ ("5" :> 53) @@ ("6" :> 54) @@ ("7" :> 55) @@
    ("8" :> 56) @@ ("9" :> 57) @@
    ("a" :> 97) @@ ("b" :> 98) @@ ("c" :> 99) @@ ("d" :> 100) @@
    ("e" :> 101) @@ ("f" :> 102) @@ ("l" :> 108) @@ ("n" :> 110) @@
    ("r" :> 114) @@ ("s" :> 115) @@ ("t" :> 116) @@ ("u" :> 117) @@
    ("A" :> 65) @@ ("B" :> 66) @@ ("C" :> 67) @@ ("D" :> 68) @@
    ("E" :> 69) @@ ("F" :> 70) @@ ("_" :> 95) @@ ("o" :> 111) @@
    ("p" :> 112) @@ ("k" :> 107) @@ ("y" :> 121)

\* the text of a sequence of character names
Str(names) == [i \in 1..Len(names) |-> Ord[names[i]]]

(***************************************************************************)
(* Sequence helpers                                                        *)
(***************************************************************************)
Last(s) == s[Len(s)]
Front(s) == SubSeq(s, 1, Len(s) - 1)
SetLast(s, x) == [s EXCEPT ![Len(s)] = x]

\* key.startsWith(rawValue)
StartsWith(s, prefix) ==
    /\ Len(s) >= Len(prefix)
    /\ SubSeq(s, 1, Len(prefix)) = prefix

RECURSIVE Flatten(_)
Flatten(ss) == IF ss = <<>> THEN <<>> ELSE ss[1] \o Flatten(Tail(ss))

(***************************************************************************)
(* JavaScript values                                                       *)
(***************************************************************************)
\* a number m * 10^e, with m not divisible by 10 (0 is m = 0, e = 0)
JNum(m, e) == [t |-> "number", m |-> m, e |-> e]
JBool(b) == [t |-> "boolean", b |-> b]
JNull == [t |-> "null"]
JStr(s) == [t |-> "string", s |-> s]

RECURSIVE Normalize(_, _)
Normalize(m, e) ==
    IF m = 0 THEN JNum(0, 0)
    ELSE IF m % 10 = 0 THEN Normalize(m \div 10, e + 1)
    ELSE JNum(m, e)

RECURSIVE DigitsValue(_)
DigitsValue(ds) ==
    IF ds = <<>> THEN 0
    ELSE 10 * DigitsValue(Front(ds)) + (Last(ds) - Ord["0"])

IsDigit(c) == c >= Ord["0"] /\ c <= Ord["9"]

\* the index of the first element of s at or after i that satisfies no
\* digit test, or Len(s) + 1
RECURSIVE DigitsEnd(_, _)
DigitsEnd(s, i) ==
    IF i <= Len(s) /\ IsDigit(s[i]) THEN DigitsEnd(s, i + 1) ELSE i

\* Number(rawValue), for a rawValue the number states have accepted:
\* [-] digits [. digits] [(e|E) [+|-] digits]
NumberOf(raw) ==
    LET neg == raw # <<>> /\ raw[1] = Ord["-"]
        i0 == IF neg THEN 2 ELSE 1
        i1 == DigitsEnd(raw, i0)
        hasFrac == i1 <= Len(raw) /\ raw[i1] = Ord["."]
        f0 == IF hasFrac THEN i1 + 1 ELSE i1
        f1 == IF hasFrac THEN DigitsEnd(raw, f0) ELSE i1
        hasExp == f1 <= Len(raw) /\ raw[f1] \in {Ord["e"], Ord["E"]}
        sgn == IF hasExp /\ f1 + 1 <= Len(raw)
                   /\ raw[f1 + 1] \in {Ord["+"], Ord["-"]}
               THEN 1 ELSE 0
        expNeg == sgn = 1 /\ raw[f1 + 1] = Ord["-"]
        expDigits == IF hasExp THEN SubSeq(raw, f1 + 1 + sgn, Len(raw))
                     ELSE <<>>
        intDigits == SubSeq(raw, i0, i1 - 1)
        fracDigits == IF hasFrac THEN SubSeq(raw, f0, f1 - 1) ELSE <<>>
        mant == DigitsValue(intDigits \o fracDigits)
        ex == (IF expNeg THEN 0 - DigitsValue(expDigits)
               ELSE DigitsValue(expDigits)) - Len(fracDigits)
    IN  Normalize(IF neg THEN 0 - mant ELSE mant, ex)

(***************************************************************************)
(* Tokens (JsonChunk)                                                      *)
(***************************************************************************)
whitespace(rawValue) == [type |-> "WHITESPACE", rawValue |-> rawValue]
comma(rawValue) == [type |-> "COMMA", rawValue |-> rawValue]
colon(rawValue) == [type |-> "COLON", rawValue |-> rawValue]
objectStart(rawValue) == [type |-> "OBJECT_START", rawValue |-> rawValue]
objectEnd(rawValue) == [type |-> "OBJECT_END", rawValue |-> rawValue]
arrayStart(rawValue) == [type |-> "ARRAY_START", rawValue |-> rawValue]
arrayEnd(rawValue) == [type |-> "ARRAY_END", rawValue |-> rawValue]
stringStart(role, rawValue) ==
    [type |-> "STRING_START", role |-> role, rawValue |-> rawValue]
stringChunk(value, role, rawValue) ==
    [type |-> "STRING_CHUNK", role |-> role, value |-> value,
     rawValue |-> rawValue]
stringEnd(role, rawValue) ==
    [type |-> "STRING_END", role |-> role, rawValue |-> rawValue]
numberValue(value, rawValue) ==
    [type |-> "NUMBER_VALUE", value |-> value, rawValue |-> rawValue]
booleanValue(value, rawValue) ==
    [type |-> "BOOLEAN_VALUE", value |-> JBool(value), rawValue |-> rawValue]
nullValue(rawValue) ==
    [type |-> "NULL_VALUE", value |-> JNull, rawValue |-> rawValue]

(***************************************************************************)
(* JsonParser                                                              *)
(***************************************************************************)
VALUE_START_ALLOWED ==
    {"start", "object_after_colon", "array_after_start", "array_after_comma"}
\* KEY_START_ALLOWED with a key allowed right after a value too
KEY_START_ALLOWED_AfterValue ==
    {"object_after_start", "object_after_comma", "object_after_value"}
KEY_START_ALLOWED == {"object_after_start", "object_after_comma"}
WHITESPACE_ALLOWED ==
    {"start", "object_after_start", "object_after_key", "object_after_colon",
     "object_after_value", "object_after_comma", "array_after_start",
     "array_after_value", "array_after_comma", "end"}

\* the escape characters after a backslash, and what each stands for
STRING_ESCAPE_CHARS ==
    (Ord["\""] :> Ord["\""]) @@ (Ord["\\"] :> Ord["\\"]) @@
    (Ord["/"] :> Ord["/"]) @@ (Ord["b"] :> Ord["BS"]) @@
    (Ord["f"] :> Ord["\f"]) @@ (Ord["n"] :> Ord["\n"]) @@
    (Ord["r"] :> Ord["\r"]) @@ (Ord["t"] :> Ord["\t"])

WHITESPACE_CHARS == {Ord[" "], Ord["\t"], Ord["\n"], Ord["\r"]}
NUMBER_CHARS == {Ord[d] : d \in {"0", "1", "2", "3", "4", "5", "6", "7", "8", "9"}}
HEX_NUMBER_CHARS ==
    NUMBER_CHARS \cup {Ord[d] : d \in {"a", "b", "c", "d", "e", "f",
                                       "A", "B", "C", "D", "E", "F"}}

\* Object.entries(BOOLEAN_OR_NULL), in order
BOOLEAN_OR_NULL ==
    << [key |-> Str(<<"f", "a", "l", "s", "e">>), value |-> JBool(FALSE)],
       [key |-> Str(<<"t", "r", "u", "e">>), value |-> JBool(TRUE)],
       [key |-> Str(<<"n", "u", "l", "l">>), value |-> JNull] >>
BOOLEAN_OR_NULL_FIRST_CHARS ==
    {BOOLEAN_OR_NULL[k].key[1] : k \in DOMAIN BOOLEAN_OR_NULL}
BOOLEAN_OR_NULL_CHARS ==
    UNION {{BOOLEAN_OR_NULL[k].key[j] : j \in DOMAIN BOOLEAN_OR_NULL[k].key}
           : k \in DOMAIN BOOLEAN_OR_NULL}

\* parseInt(hex, 16) of hexadecimal digits
HexDigit(c) ==
    IF c \in NUMBER_CHARS THEN c - Ord["0"]
    ELSE IF c >= Ord["a"] THEN c - Ord["a"] + 10
    ELSE c - Ord["A"] + 10

RECURSIVE ParseHex(_)
ParseHex(hex) ==
    IF hex = <<>> THEN 0 ELSE 16 * ParseHex(Front(hex)) + HexDigit(Last(hex))

NoError == [name |-> "none", char |-> 0, position |-> 0]
UnexpectedCharError(context) ==
    [name |-> "UnexpectedCharError", char |-> context.char,
     position |-> context.position]
PrematureEndError == [name |-> "PrematureEndError", char |-> 0, position |-> 0]
InvalidValueStateError == [name |-> "Error", char |-> 0, position |-> 0]

(* The parser state is the chain of parentState references, outermost     *)
(* state first: this.state is the last element, its parentState the one   *)
(* before it.                                                              *)
isState(state, types) == Last(state).type \in types

\* getStateAfterValue with the root state left open for another value
getStateAfterValue_RootStaysOpen(stateBeforeValue) ==
    LET before == Last(stateBeforeValue)
        after ==
            IF before.type = "start" THEN "start"
            ELSE IF before.type = "object_after_colon" THEN "object_after_value"
            ELSE IF before.type \in {"array_after_start", "array_after_comma"}
                 THEN "array_after_value"
            ELSE "object_after_key"
    IN  SetLast(stateBeforeValue, [before EXCEPT !.type = after])

\* the state after the value that was started in state stateBeforeValue
getStateAfterValue(stateBeforeValue) ==
    LET before == Last(stateBeforeValue)
        after ==
            IF before.type = "start" THEN "end"
            ELSE IF before.type = "object_after_colon" THEN "object_after_value"
            ELSE IF before.type \in {"array_after_start", "array_after_comma"}
                 THEN "array_after_value"
            ELSE IF before.type \in {"object_after_start", "object_after_comma"}
                 THEN "object_after_key"
            ELSE "invalid_value_state"
    IN  SetLast(stateBeforeValue, [before EXCEPT !.type = after])

\* A parser: its state, the chunks it has enqueued so far and the error it
\* has thrown, if any.
NewParser == [state |-> << [type |-> "start"] >>, out |-> <<>>, err |-> NoError]

enqueue(p, chunk) == [p EXCEPT !.out = Append(@, chunk)]
setState(p, state) ==
    IF Last(state).type = "invalid_value_state"
    THEN [p EXCEPT !.err = InvalidValueStateError]
    ELSE [p EXCEPT !.state = state]

\* checkValueEnd leaving the whitespace state without emitting its buffer
checkValueEnd_DropsWhitespace(p, char) ==
    LET ended == char = -1
        p1 == IF /\ Last(p.state).type = "whitespace"
                 /\ (ended \/ char \notin WHITESPACE_CHARS)
              THEN setState(p, Front(p.state))
              ELSE p
        t == Last(p1.state).type
    IN  IF \/ (t = "number_digits"
                /\ (ended \/ char \notin NUMBER_CHARS
                                 \cup {Ord["."], Ord["e"], Ord["E"]}))
           \/ (t = "number_decimal_digits"
                /\ (ended \/ char \notin NUMBER_CHARS \cup {Ord["e"], Ord["E"]}))
           \/ (t = "number_e_digits" /\ (ended \/ char \notin NUMBER_CHARS))
        THEN setState(
                 enqueue(p1, numberValue(NumberOf(Last(p1.state).rawValue),
                                         Last(p1.state).rawValue)),
                 getStateAfterValue(Front(p1.state)))
        ELSE p1

\* char is a code unit, or -1 for undefined (the end of the stream)
checkValueEnd(p, char) ==
    LET ended == char = -1
        p1 == IF /\ Last(p.state).type = "whitespace"
                 /\ (ended \/ char \notin WHITESPACE_CHARS)
              THEN setState(
                       IF Len(Last(p.state).rawValue) > 0
                       THEN enqueue(p, whitespace(Last(p.state).rawValue))
                       ELSE p,
                       Front(p.state))
              ELSE p
        t == Last(p1.state).type
    IN  IF \/ (t = "number_digits"
                /\ (ended \/ char \notin NUMBER_CHARS
                                 \cup {Ord["."], Ord["e"], Ord["E"]}))
           \/ (t = "number_decimal_digits"
                /\ (ended \/ char \notin NUMBER_CHARS \cup {Ord["e"], Ord["E"]}))
           \/ (t = "number_e_digits" /\ (ended \/ char \notin NUMBER_CHARS))
        THEN setState(
                 enqueue(p1, numberValue(NumberOf(Last(p1.state).rawValue),
                                         Last(p1.state).rawValue)),
                 getStateAfterValue(Front(p1.state)))
        ELSE p1

\* the first entry of BOOLEAN_OR_NULL at or after k that the loop of
\* handleChar returns on for rawValue, or 0 when it runs to its end
RECURSIVE BooleanOrNullEntry(_, _)
BooleanOrNullEntry(rawValue, k) ==
    IF k > Len(BOOLEAN_OR_NULL) THEN 0
    ELSE IF \/ rawValue = BOOLEAN_OR_NULL[k].key
            \/ StartsWith(BOOLEAN_OR_NULL[k].key, rawValue)
         THEN k
         ELSE BooleanOrNullEntry(rawValue, k + 1)

\* handleChar after its call of checkValueEnd, in the parser p that call
\* leaves
handleCharInState(p, context) ==
    LET char == context.char
        state == p.state
        cur == Last(state)
        push(frame) == Append(state, frame)
        numberFrame(type) ==
            [type |-> type, rawValue |-> Append(cur.rawValue, char)]
        bonRaw == Append(cur.rawValue, char)
        bonEntry == BooleanOrNullEntry(bonRaw, 1)
    IN
    IF p.err # NoError THEN p
    \* Objects
    ELSE IF char = Ord["{"] /\ isState(state, VALUE_START_ALLOWED) THEN
        setState(enqueue(p, objectStart(<<char>>)),
                 push([type |-> "object_after_start"]))
    ELSE IF char = Ord["}"]
            /\ isState(state, {"object_after_start", "object_after_value"}) THEN
        setState(enqueue(p, objectEnd(<<char>>)),
                 getStateAfterValue(Front(state)))
    ELSE IF char = Ord[":"] /\ isState(state, {"object_after_key"}) THEN
        setState(enqueue(p, colon(<<char>>)),
                 SetLast(state, [type |-> "object_after_colon"]))
    ELSE IF char = Ord[","] /\ isState(state, {"object_after_value"}) THEN
        setState(enqueue(p, comma(<<char>>)),
                 SetLast(state, [type |-> "object_after_comma"]))
    \* Arrays
    ELSE IF char = Ord["["] /\ isState(state, VALUE_START_ALLOWED) THEN
        setState(enqueue(p, arrayStart(<<char>>)),
                 push([type |-> "array_after_start"]))
    ELSE IF char = Ord["]"]
            /\ isState(state, {"array_after_start", "array_after_value"}) THEN
        setState(enqueue(p, arrayEnd(<<char>>)),
                 getStateAfterValue(Front(state)))
    ELSE IF char = Ord[","] /\ isState(state, {"array_after_value"}) THEN
        setState(enqueue(p, comma(<<char>>)),
                 SetLast(state, [type |-> "array_after_comma"]))
    \* Boolean/null
    ELSE IF char \in BOOLEAN_OR_NULL_FIRST_CHARS
            /\ isState(state, VALUE_START_ALLOWED) THEN
        setState(p, push([type |-> "boolean_or_null", rawValue |-> <<char>>]))
    ELSE IF char \in BOOLEAN_OR_NULL_CHARS /\ cur.type = "boolean_or_null"
            /\ bonEntry # 0 THEN
        IF bonRaw = BOOLEAN_OR_NULL[bonEntry].key
        THEN setState(
                 enqueue(p, IF BOOLEAN_OR_NULL[bonEntry].value.t = "boolean"
                            THEN booleanValue(BOOLEAN_OR_NULL[bonEntry].value.b,
                                              bonRaw)
                            ELSE nullValue(bonRaw)),
                 getStateAfterValue(Front(state)))
        ELSE setState(p, SetLast(state, [cur EXCEPT !.rawValue = bonRaw]))
    \* Strings
    ELSE IF char = Ord["\""] /\ isState(state, VALUE_START_ALLOWED) THEN
        setState(enqueue(p, stringStart("VALUE", <<char>>)),
                 push([type |-> "string", value |-> <<>>, rawValue |-> <<>>,
                       role |-> "VALUE"]))
    ELSE IF char = Ord["\""] /\ isState(state, KEY_START_ALLOWED) THEN
        setState(enqueue(p, stringStart("KEY", <<char>>)),
                 push([type |-> "string", value |-> <<>>, rawValue |-> <<>>,
                       role |-> "KEY"]))
    ELSE IF char = Ord["\""] /\ isState(state, {"string"}) THEN
        setState(
            enqueue(IF Len(cur.rawValue) > 0
                    THEN enqueue(p, stringChunk(cur.value, cur.role, cur.rawValue))
                    ELSE p,
                    stringEnd(cur.role, <<char>>)),
            getStateAfterValue(Front(state)))
    ELSE IF char = Ord["\\"] /\ isState(state, {"string"}) THEN
        setState(p, push([type |-> "string_after_backslash",
                          rawValue |-> <<char>>]))
    ELSE IF char \in DOMAIN STRING_ESCAPE_CHARS
            /\ isState(state, {"string_after_backslash"}) THEN
        LET parent == Last(Front(state)) IN
        setState(p, SetLast(Front(state),
            [parent EXCEPT
                !.value = Append(@, STRING_ESCAPE_CHARS[char]),
                !.rawValue = @ \o cur.rawValue \o <<char>>]))
    ELSE IF char = Ord["u"] /\ isState(state, {"string_after_backslash"}) THEN
        setState(p, SetLast(state,
            [type |-> "string_after_backslash_u", value |-> <<>>,
             rawValue |-> Append(cur.rawValue, char)]))
    ELSE IF char \in HEX_NUMBER_CHARS
            /\ isState(state, {"string_after_backslash_u"}) THEN
        LET value == Append(cur.value, char)
            rawValue == Append(cur.rawValue, char)
            parent == Last(Front(state))
        IN  IF Len(value) = 4
            THEN setState(p, SetLast(Front(state),
                     [parent EXCEPT
                         !.value = Append(@, ParseHex(value)),
                         !.rawValue = @ \o rawValue]))
            ELSE setState(p, SetLast(state,
                     [cur EXCEPT !.value = value, !.rawValue = rawValue]))
    ELSE IF char >= 32 /\ isState(state, {"string"}) THEN
        setState(p, SetLast(state,
            [cur EXCEPT !.value = Append(@, char),
                        !.rawValue = Append(@, char)]))
    \* Numbers
    ELSE IF char = Ord["-"] /\ isState(state, VALUE_START_ALLOWED) THEN
        setState(p, push([type |-> "number_minus", rawValue |-> <<char>>]))
    ELSE IF char \in {Ord["-"], Ord["+"]} /\ cur.type = "number_e" THEN
        setState(p, SetLast(state, numberFrame("number_e_plusminus")))
    ELSE IF char = Ord["."] /\ cur.type = "number_digits" THEN
        setState(p, SetLast(state, numberFrame("number_point")))
    ELSE IF char \in {Ord["e"], Ord["E"]}
            /\ isState(state, {"number_digits", "number_decimal_digits"}) THEN
        setState(p, SetLast(state, numberFrame("number_e")))
    ELSE IF char \in NUMBER_CHARS /\ cur.type = "number_minus" THEN
        setState(p, SetLast(state, numberFrame("number_digits")))
    ELSE IF char \in NUMBER_CHARS /\ cur.type = "number_point" THEN
        setState(p, SetLast(state, numberFrame("number_decimal_digits")))
    ELSE IF char \in NUMBER_CHARS
            /\ isState(state, {"number_e", "number_e_plusminus"}) THEN
        setState(p, SetLast(state, numberFrame("number_e_digits")))
    ELSE IF char \in NUMBER_CHARS
            /\ isState(state, {"number_digits", "number_decimal_digits",
                               "number_e_digits"}) THEN
        setState(p, SetLast(state, numberFrame(cur.type)))
    ELSE IF char \in NUMBER_CHARS /\ isState(state, VALUE_START_ALLOWED) THEN
        setState(p, push([type |-> "number_digits", rawValue |-> <<char>>]))
    \* Whitespaces
    ELSE IF char \in WHITESPACE_CHARS /\ cur.type = "whitespace" THEN
        setState(p, SetLast(state, [cur EXCEPT !.rawValue = Append(@, char)]))
    ELSE IF char \in WHITESPACE_CHARS /\ isState(state, WHITESPACE_ALLOWED) THEN
        setState(p, push([type |-> "whitespace", rawValue |-> <<char>>]))
    ELSE [p EXCEPT !.err = UnexpectedCharError(context)]

handleChar(p, context) ==
    handleCharInState(checkValueEnd(p, context.char), context)

\* handleChunkEnd without the reset of the buffers it has flushed
handleChunkEnd_KeepsBuffers(p) ==
    LET state == p.state
        cur == Last(state)
        p1 == IF cur.type = "string"
              THEN enqueue(p, stringChunk(cur.value, cur.role, cur.rawValue))
              ELSE p
    IN  IF cur.type = "whitespace" /\ Len(cur.rawValue) > 0
        THEN enqueue(p1, whitespace(cur.rawValue))
        ELSE p1

\* handleChunkEnd flushing nothing
handleChunkEnd_WithoutFlush(p) == p

\* handleChunkEnd flushing the escape sequence that is being read along
\* with the buffer of its string
handleChunkEnd_WithEscape(p) ==
    LET state == p.state
        cur == Last(state)
    IN  IF isState(state, {"string_after_backslash", "string_after_backslash_u"})
        THEN [enqueue(p, stringChunk(state[Len(state) - 1].value,
                                     state[Len(state) - 1].role,
                                     state[Len(state) - 1].rawValue
                                         \o cur.rawValue))
                 EXCEPT !.state[Len(state) - 1].rawValue = <<>>,
                        !.state[Len(state) - 1].value = <<>>]
        ELSE IF cur.type = "string"
        THEN [enqueue(p, stringChunk(cur.value, cur.role, cur.rawValue))
                 EXCEPT !.state[Len(state)].rawValue = <<>>,
                        !.state[Len(state)].value = <<>>]
        ELSE IF cur.type = "whitespace" /\ Len(cur.rawValue) > 0
        THEN [enqueue(p, whitespace(cur.rawValue))
                 EXCEPT !.state[Len(state)].rawValue = <<>>]
        ELSE p

handleChunkEnd(p) ==
    LET state == p.state
        cur == Last(state)
        \* the index in the chain of the string state to flush, or 0
        stringState ==
            IF cur.type = "string" THEN Len(state)
            ELSE IF isState(state, {"string_after_backslash",
                                    "string_after_backslash_u"})
                 THEN Len(state) - 1
            ELSE 0
        p1 == IF stringState # 0
              THEN [enqueue(p, stringChunk(state[stringState].value,
                                           state[stringState].role,
                                           state[stringState].rawValue))
                       EXCEPT !.state[stringState].rawValue = <<>>,
                              !.state[stringState].value = <<>>]
              ELSE p
    IN  IF cur.type = "whitespace" /\ Len(cur.rawValue) > 0
        THEN [enqueue(p1, whitespace(cur.rawValue))
                 EXCEPT !.state[Len(state)].rawValue = <<>>]
        ELSE p1

\* the for loop of transform over chunk[i..], at stream offset
\* lengthBeforeCurrentChunk; a throw ends it
RECURSIVE handleChars(_, _, _, _)
handleChars(p, chunk, i, lengthBeforeCurrentChunk) ==
    IF i > Len(chunk) \/ p.err # NoError THEN p
    ELSE CHOOSE r \in
             { handleChars(q, chunk, i + 1, lengthBeforeCurrentChunk) :
               q \in {handleChar(p, [char |-> chunk[i],
                                     position |-> lengthBeforeCurrentChunk + i - 1])} } :
             TRUE

transform(p, chunk, lengthBeforeCurrentChunk) ==
    LET q == handleChars(p, chunk, 1, lengthBeforeCurrentChunk)
    IN  IF q.err # NoError THEN q ELSE handleChunkEnd(q)

\* flush without the implicit terminator step
flush_WithoutValueEnd(p) ==
    IF Last(p.state).type # "end"
    THEN [p EXCEPT !.err = PrematureEndError]
    ELSE p

flush(p) ==
    LET q == checkValueEnd(p, -1)
    IN  IF q.err # NoError THEN q
        ELSE IF Last(q.state).type # "end"
             THEN [q EXCEPT !.err = PrematureEndError]
        ELSE q

(***************************************************************************)
(* JsonParser with the option multi: any number of values at the top     *)
(* level, and the record separator 0x1E where whitespace is allowed at    *)
(* the top level                                                           *)
(***************************************************************************)
RecordSeparator == Ord["RS"]

\* the parser is in whitespace between the values of the top level
InTopLevelWhitespace(p) ==
    Len(p.state) = 2 /\ Last(p.state).type = "whitespace"

\* flush, which accepts the state before the first value too
flushMulti_AsSingle(p) == flush(p)

\* handleChar of a parser with multi: a record separator at the top level
\* is whitespace, and a value may start where the last one has ended
handleCharMulti(p, context) ==
    IF context.char = RecordSeparator /\ InTopLevelWhitespace(p)
    THEN setState(p, SetLast(p.state,
             [Last(p.state) EXCEPT !.rawValue = Append(@, context.char)]))
    ELSE CHOOSE r \in
             { IF q.err # NoError THEN q
               ELSE IF /\ context.char = RecordSeparator
                       /\ Last(q.state).type \in {"start", "end"}
               THEN setState(q, Append(q.state,
                        [type |-> "whitespace",
                         rawValue |-> <<context.char>>]))
               ELSE handleCharInState(
                        IF /\ Last(q.state).type = "end"
                           /\ context.char \notin WHITESPACE_CHARS
                        THEN [q EXCEPT !.state = <<[type |-> "start"]>>]
                        ELSE q,
                        context)
               : q \in {checkValueEnd(p, context.char)} } : TRUE

RECURSIVE handleCharsMulti(_, _, _, _)
handleCharsMulti(p, chunk, i, lengthBeforeCurrentChunk) ==
    IF i > Len(chunk) \/ p.err # NoError THEN p
    ELSE CHOOSE r \in
             { handleCharsMulti(q, chunk, i + 1, lengthBeforeCurrentChunk) :
               q \in {handleCharMulti(p,
                          [char |-> chunk[i],
                           position |-> lengthBeforeCurrentChunk + i - 1])} } :
             TRUE

transformMulti(p, chunk, lengthBeforeCurrentChunk) ==
    LET q == handleCharsMulti(p, chunk, 1, lengthBeforeCurrentChunk)
    IN  IF q.err # NoError THEN q ELSE handleChunkEnd(q)

\* flush of a parser with multi: the stream may end before the first value
\* and after each value
flushMulti(p) ==
    LET q == checkValueEnd(p, -1)
    IN  IF q.err # NoError THEN q
        ELSE IF Last(q.state).type \notin {"start", "end"}
             THEN [q EXCEPT !.err = PrematureEndError]
        ELSE q

(***************************************************************************)
(* JsonStringifier                                                         *)
(***************************************************************************)
\* JsonStringifier.transform: what it enqueues for a chunk
stringify(chunk) == chunk.rawValue

\* streamToString of a chunk stream piped through JsonStringifier
StringifiedText(chunks) ==
    Flatten([i \in DOMAIN chunks |-> stringify(chunks[i])])

(***************************************************************************)
(* JSON.stringify of a number and of a string, the defaults of rawValue   *)
(***************************************************************************)
\* the decimal digits of a natural number
RECURSIVE Digits(_)
Digits(n) ==
    IF n < 10 THEN <<Ord["0"] + n>>
    ELSE Append(Digits(n \div 10), Ord["0"] + (n % 10))

Zeros(n) == [i \in 1..n |-> Ord["0"]]

\* JSON.stringify(value) of a finite number: Number::toString, with s the
\* digits of the number, k their count and n the position of the decimal
\* point
NumberToString(num) ==
    IF num.m = 0 THEN <<Ord["0"]>>
    ELSE
    LET s == Digits(IF num.m < 0 THEN 0 - num.m ELSE num.m)
        k == Len(s)
        n == k + num.e
        sign == IF num.m < 0 THEN <<Ord["-"]>> ELSE <<>>
        exponent ==
            <<Ord["e"], IF n - 1 < 0 THEN Ord["-"] ELSE Ord["+"]>>
            \o Digits(IF n - 1 < 0 THEN 1 - n ELSE n - 1)
    IN  sign \o
        (IF k <= n /\ n <= 21 THEN s \o Zeros(n - k)
         ELSE IF 0 < n /\ n <= 21
              THEN SubSeq(s, 1, n) \o <<Ord["."]>> \o SubSeq(s, n + 1, k)
         ELSE IF -6 < n /\ n <= 0
              THEN <<Ord["0"], Ord["."]>> \o Zeros(0 - n) \o s
         ELSE IF k = 1 THEN s \o exponent
         ELSE <<s[1], Ord["."]>> \o SubSeq(s, 2, k) \o exponent)

\* JSON.stringify(value) of a boolean
BooleanToString(b) ==
    IF b THEN Str(<<"t", "r", "u", "e">>) ELSE Str(<<"f", "a", "l", "s", "e">>)

LowerHexDigit(d) == IF d < 10 THEN Ord["0"] + d ELSE Ord["a"] + (d - 10)

\* the escape \uXXXX of a code unit, in lower-case hexadecimal digits
UnicodeEscape(c) ==
    <<Ord["\\"], Ord["u"], LowerHexDigit(c \div 4096),
      LowerHexDigit((c \div 256) % 16), LowerHexDigit((c \div 16) % 16),
      LowerHexDigit(c % 16)>>

IsLeadingSurrogate(c) == c >= 55296 /\ c <= 56319
IsTrailingSurrogate(c) == c >= 56320 /\ c <= 57343

\* QuoteCodeUnit without the two-character escapes of the control
\* characters
QuoteCodeUnit_NoShortEscapes(c) ==
    IF c = Ord["\""] THEN <<Ord["\\"], Ord["\""]>>
    ELSE IF c = Ord["\\"] THEN <<Ord["\\"], Ord["\\"]>>
    ELSE <<c>>

\* what JSON.stringify writes for the code unit c that is no part of a
\* surrogate pair
QuoteCodeUnit(c) ==
    IF c = Ord["\""] THEN <<Ord["\\"], Ord["\""]>>
    ELSE IF c = Ord["\\"] THEN <<Ord["\\"], Ord["\\"]>>
    ELSE IF c = Ord["BS"] THEN <<Ord["\\"], Ord["b"]>>
    ELSE IF c = Ord["\f"] THEN <<Ord["\\"], Ord["f"]>>
    ELSE IF c = Ord["\n"] THEN <<Ord["\\"], Ord["n"]>>
    ELSE IF c = Ord["\r"] THEN <<Ord["\\"], Ord["r"]>>
    ELSE IF c = Ord["\t"] THEN <<Ord["\\"], Ord["t"]>>
    ELSE IF c < 32 \/ IsLeadingSurrogate(c) \/ IsTrailingSurrogate(c)
         THEN UnicodeEscape(c)
    ELSE <<c>>

\* JSON.stringify(value).slice(1, -1) of the string value, from index i on
RECURSIVE QuoteJSONString(_, _)
QuoteJSONString(value, i) ==
    IF i > Len(value) THEN <<>>
    ELSE IF /\ IsLeadingSurrogate(value[i])
            /\ i < Len(value)
            /\ IsTrailingSurrogate(value[i + 1])
         THEN <<value[i], value[i + 1]>> \o QuoteJSONString(value, i + 2)
    ELSE QuoteCodeUnit(value[i]) \o QuoteJSONString(value, i + 1)

(***************************************************************************)
(* JsonSerializer.  A JavaScript value is a number, a boolean, null, a    *)
(* string, an array of its items or an object of its entries, in the      *)
(* order of Object.entries.                                                *)
(***************************************************************************)
Undefined == [t |-> "undefined"]
JArray(items) == [t |-> "array", items |-> items]
JObject(entries) == [t |-> "object", entries |-> entries]
Entry(key, value) == [key |-> key, value |-> value]

Symbol == [t |-> "symbol"]
Function(returns) == [t |-> "function", returns |-> returns]
StringStream(strings) == [t |-> "stringStream", chunks |-> strings]
ArrayStream(items) == [t |-> "arrayStream", items |-> items]
ObjectStream(entries) == [t |-> "objectStream", entries |-> entries]

RangeError == [name |-> "RangeError", char |-> 0, position |-> 0]

\* ToIntegerOrInfinity of a number m * 10^e: its fraction is cut off
RECURSIVE ToIntegerOrInfinity(_)
ToIntegerOrInfinity(num) ==
    IF num.e = 0 THEN num.m
    ELSE IF num.e > 0
    THEN ToIntegerOrInfinity(JNum(num.m * 10, num.e - 1))
    ELSE IF num.m >= 0
    THEN ToIntegerOrInfinity(JNum(num.m \div 10, num.e + 1))
    ELSE 0 - ToIntegerOrInfinity(JNum((0 - num.m) \div 10, num.e + 1))

\* String.prototype.repeat, which throws a RangeError for a negative count
repeat(string, count) ==
    IF ToIntegerOrInfinity(count) < 0 THEN RangeError
    ELSE [i \in 1..(ToIntegerOrInfinity(count) * Len(string)) |->
             string[((i - 1) % Len(string)) + 1]]

normalizeSpace(space) ==
    IF space.t = "number" THEN repeat(<<Ord[" "]>>, space)
    ELSE IF space.t = "string" THEN space.s
    ELSE <<>>

\* await (typeof value === "function" ? value() : value)
resolve(value) == IF value.t = "function" THEN value.returns ELSE value

\* v === undefined || typeof v === "symbol", for the value of an entry
skipped(v) == v.t \in {"undefined", "symbol"}

\* the comma before an entry of an object, by the flag first
commaBefore_Always(first) == <<comma(<<Ord[","]>>)>>

commaBefore(first) == IF first THEN <<>> ELSE <<comma(<<Ord[","]>>)>>

\* the chunks serializeJson yields for value, a value without toJSON, with
\* the space normalizeSpace accepts; serializeEntries is the loop over the
\* entries of an object or of an ObjectStream, from entry i on
RECURSIVE serializeJson(_, _, _), serializeEntries(_, _, _, _, _)
serializeJson(value, space, spacePrefix) ==
    LET normalizedSpace == normalizeSpace(space)
        val == resolve(value)
        indent(prefix) ==
            IF normalizedSpace # <<>>
            THEN <<whitespace(<<Ord["\n"]>> \o prefix)>>
            ELSE <<>>
        separator(i) == IF i > 1 THEN <<comma(<<Ord[","]>>)>> ELSE <<>>
    IN
    IF val.t = "boolean"
    THEN <<booleanValue(val.b, BooleanToString(val.b))>>
    ELSE IF val.t = "number"
    THEN <<numberValue(val, NumberToString(val))>>
    ELSE IF val.t = "string"
    THEN <<stringStart("VALUE", <<Ord["\""]>>),
           stringChunk(val.s, "VALUE", QuoteJSONString(val.s, 1)),
           stringEnd("VALUE", <<Ord["\""]>>)>>
    ELSE IF val.t = "stringStream"
    THEN <<stringStart("VALUE", <<Ord["\""]>>)>>
         \o [i \in 1..Len(val.chunks) |->
                stringChunk(val.chunks[i], "VALUE",
                            QuoteJSONString(val.chunks[i], 1))]
         \o <<stringEnd("VALUE", <<Ord["\""]>>)>>
    ELSE IF val.t \in {"array", "arrayStream"}
    THEN <<arrayStart(<<Ord["["]>>)>>
         \o Flatten([i \in 1..Len(val.items) |->
                separator(i)
                \o indent(spacePrefix \o normalizedSpace)
                \o serializeJson(val.items[i], space,
                                 spacePrefix \o normalizedSpace)])
         \o (IF Len(val.items) > 0 THEN indent(spacePrefix) ELSE <<>>)
         \o <<arrayEnd(<<Ord["]"]>>)>>
    ELSE IF val.t \in {"object", "objectStream"}
    THEN <<objectStart(<<Ord["{"]>>)>>
         \o serializeEntries(val.entries, 1, TRUE, space, spacePrefix)
         \o <<objectEnd(<<Ord["}"]>>)>>
    ELSE <<nullValue(Str(<<"n", "u", "l", "l">>))>>

serializeEntries(entries, i, first, space, spacePrefix) ==
    LET normalizedSpace == normalizeSpace(space)
        indent(prefix) ==
            IF normalizedSpace # <<>>
            THEN <<whitespace(<<Ord["\n"]>> \o prefix)>>
            ELSE <<>>
    IN
    IF i > Len(entries)
    THEN IF ~first THEN indent(spacePrefix) ELSE <<>>
    ELSE IF skipped(resolve(entries[i].value))
    THEN serializeEntries(entries, i + 1, first, space, spacePrefix)
    ELSE commaBefore(first)
         \o indent(spacePrefix \o normalizedSpace)
         \o <<stringStart("KEY", <<Ord["\""]>>),
              stringChunk(entries[i].key, "KEY",
                          QuoteJSONString(entries[i].key, 1)),
              stringEnd("KEY", <<Ord["\""]>>),
              colon(<<Ord[":"]>>)>>
         \o (IF normalizedSpace # <<>>
             THEN <<whitespace(<<Ord[" "]>>)>> ELSE <<>>)
         \o serializeJson(resolve(entries[i].value), space,
                          spacePrefix \o normalizedSpace)
         \o serializeEntries(entries, i + 1, FALSE, space, spacePrefix)

\* a JsonSerializer right after its construction
MaxTags == 2

\* a ReadableStream of a stream tag: what its source has enqueued and
\* whether it has closed it, the calls of getReader, the chunks read, and
\* whether its source was cancelled
NewTag == [enqueued |-> 0, closed |-> FALSE, readers |-> 0, taken |-> 0,
           cancelled |-> FALSE]

\* a JsonSerializer right after serializeJsonValue has written the value:
\* the write waits, the generator is at its first step, the readable side
\* is open and nothing is read from it
NewSerializer ==
    [err |-> NoError, pc |-> "write", step |-> 1,
     tags |-> [k \in 1..MaxTags |-> NewTag],
     readable |-> "readable", taken |-> 0]

(***************************************************************************)
(* AbortHandlingTransformStream: a TransformStream whose writable side is *)
(* a WritableStream that writes to and closes the writer of the           *)
(* TransformStream, and whose abort calls the abort callback              *)
(***************************************************************************)
\* the abort callbacks: none given, one that throws, one that calls
\* controller.error, one that does both and one that returns
AbortCallbacks == {"none", "throws", "errors", "errorsAndThrows", "returns"}

\* the reasons the producer aborts with
AbortReasons == {"test1", "other"}

\* the error an abort callback throws, and the one it passes to
\* controller.error
Thrown == "test2"
Passed == "test3"

\* before its construction; then: the abort callback, the state of the
\* writable side, the chunk of the write in flight, the reason of the
\* abort, the arguments of the calls of the callback, the chunks enqueued
\* on the readable side, its state and its error, the reads of the
\* consumer and the writes of the producer
NewAbortHandlingTransformStream ==
    [callback |-> "none", writable |-> "new", inFlight |-> <<>>,
     reason |-> <<>>, calls |-> <<>>, out |-> <<>>,
     readable |-> "readable", storedError |-> <<>>, taken |-> 0,
     written |-> 0]

\* controller.error(e) and writer.abort(e): the readable side is errored
\* with e, unless it is errored or closed already
errorReadable(t, e) ==
    IF t.readable # "readable" THEN t
    ELSE [t EXCEPT !.readable = "errored", !.storedError = <<e>>]

\* the abort algorithm with an error thrown by the callback left alone
abortAlgorithm_WithoutCatch(t, reason) ==
    IF t.callback = "none" THEN errorReadable(t, reason)
    ELSE IF t.callback \in {"errors", "errorsAndThrows"}
    THEN errorReadable([t EXCEPT !.calls = Append(@, reason)], Passed)
    ELSE [t EXCEPT !.calls = Append(@, reason)]

\* abort of the underlying sink of the writable side
abortAlgorithm(t, reason) ==
    IF t.callback = "none" THEN errorReadable(t, reason)
    ELSE LET called == [t EXCEPT !.calls = Append(@, reason)]
             passed == IF t.callback \in {"errors", "errorsAndThrows"}
                       THEN errorReadable(called, Passed)
                       ELSE called
         IN  IF t.callback \in {"throws", "errorsAndThrows"}
             THEN errorReadable(passed, Thrown)
             ELSE passed

(***************************************************************************)
(* JsonDeserializer.  Its state is the chain of parent references,        *)
(* outermost first; the array or object of a frame is the value of its    *)
(* parent frame (one JavaScript object referenced twice), which the model *)
(* writes back to the parent when the frame is left.                       *)
(***************************************************************************)
NewDeserializer ==
    [state |-> << [type |-> "ROOT", value |-> Undefined, path |-> <<>>] >>,
     out |-> <<>>]

\* chunk.path, undefined for a chunk without paths
PathOf(chunk) == IF "path" \in DOMAIN chunk THEN chunk.path ELSE Undefined

\* object[key] = value on the entries of an object
RECURSIVE PutEntry(_, _, _)
PutEntry(entries, key, value) ==
    IF entries = <<>> THEN <<Entry(key, value)>>
    ELSE IF entries[1].key = key THEN <<Entry(key, value)>> \o Tail(entries)
    ELSE <<entries[1]>> \o PutEntry(Tail(entries), key, value)

\* handleValueEnd without the reset of this.state.value in the root frame
handleValueEnd_KeepsValue(d) ==
    LET cur == Last(d.state)
    IN  IF cur.type = "ROOT"
        THEN [d EXCEPT !.out = IF cur.value.t # "undefined"
                               THEN Append(@, [value |-> cur.value,
                                               path |-> cur.path])
                               ELSE @]
        ELSE IF cur.type = "OBJECT_PROPERTY"
        THEN [d EXCEPT !.state = SetLast(d.state,
                 [cur EXCEPT
                     !.object = IF cur.value.t # "undefined"
                                THEN JObject(PutEntry(@.entries, cur.key,
                                                      cur.value))
                                ELSE @,
                     !.key = <<>>,
                     !.value = Undefined])]
        ELSE [d EXCEPT !.state = SetLast(d.state,
                 [cur EXCEPT
                     !.array = IF cur.value.t # "undefined"
                               THEN JArray(Append(@.items, cur.value))
                               ELSE @,
                     !.value = Undefined])]

\* handleValueEnd(): the value goes to the parent frame or is emitted
handleValueEnd(d) ==
    LET cur == Last(d.state)
    IN  IF cur.type = "ROOT"
        THEN [state |-> SetLast(d.state, [cur EXCEPT !.value = Undefined]),
              out |-> IF cur.value.t # "undefined"
                      THEN Append(d.out, [value |-> cur.value,
                                          path |-> cur.path])
                      ELSE d.out]
        ELSE IF cur.type = "OBJECT_PROPERTY"
        THEN [d EXCEPT !.state = SetLast(d.state,
                 [cur EXCEPT
                     !.object = IF cur.value.t # "undefined"
                                THEN JObject(PutEntry(@.entries, cur.key,
                                                      cur.value))
                                ELSE @,
                     !.key = <<>>,
                     !.value = Undefined])]
        ELSE [d EXCEPT !.state = SetLast(d.state,
                 [cur EXCEPT
                     !.array = IF cur.value.t # "undefined"
                               THEN JArray(Append(@.items, cur.value))
                               ELSE @,
                     !.value = Undefined])]

\* this.state.value = value without the assignment of this.state.path
startValue_KeepsPath(d, value, chunk) ==
    [d EXCEPT !.state = SetLast(d.state, [Last(d.state) EXCEPT !.value = value])]

\* this.state.value = value, and this.state.path = chunk.path in the root
\* frame
startValue(d, value, chunk) ==
    LET cur == Last(d.state)
    IN  [d EXCEPT !.state = SetLast(d.state,
            IF cur.type = "ROOT"
            THEN [cur EXCEPT !.value = value, !.path = PathOf(chunk)]
            ELSE [cur EXCEPT !.value = value])]

\* this.state = this.state.parent, the parent's value being the array or
\* object the frame has filled
leaveFrame(d) ==
    LET cur == Last(d.state)
        parent == d.state[Len(d.state) - 1]
        filled == IF cur.type = "ARRAY_ITEM" THEN cur.array ELSE cur.object
    IN  [d EXCEPT !.state =
            SetLast(Front(d.state), [parent EXCEPT !.value = filled])]

JsonDeserializer_transform(d, chunk) ==
    LET cur == Last(d.state)
    IN  IF chunk.type \in {"NUMBER_VALUE", "BOOLEAN_VALUE", "NULL_VALUE"}
        THEN handleValueEnd(startValue(d, chunk.value, chunk))
        ELSE IF chunk.type = "STRING_START" /\ chunk.role = "VALUE"
        THEN startValue(d, JStr(<<>>), chunk)
        ELSE IF chunk.type = "STRING_CHUNK" /\ chunk.role = "VALUE"
        THEN [d EXCEPT !.state = SetLast(d.state,
                 [cur EXCEPT !.value =
                     IF @.t = "string" THEN JStr(@.s \o chunk.value)
                     ELSE JStr(Str(<<"u", "n", "d", "e", "f", "i", "n", "e",
                                     "d">>) \o chunk.value)])]
        ELSE IF chunk.type = "STRING_END" /\ chunk.role = "VALUE"
        THEN handleValueEnd(d)
        ELSE IF chunk.type = "ARRAY_START"
        THEN [d EXCEPT !.state =
                 Append(startValue(d, JArray(<<>>), chunk).state,
                        [type |-> "ARRAY_ITEM", array |-> JArray(<<>>),
                         value |-> Undefined])]
        ELSE IF chunk.type = "ARRAY_END" /\ cur.type = "ARRAY_ITEM"
        THEN handleValueEnd(leaveFrame(d))
        ELSE IF chunk.type = "OBJECT_START"
        THEN [d EXCEPT !.state =
                 Append(startValue(d, JObject(<<>>), chunk).state,
                        [type |-> "OBJECT_PROPERTY", object |-> JObject(<<>>),
                         key |-> <<>>, value |-> Undefined])]
        ELSE IF chunk.type = "OBJECT_END" /\ cur.type = "OBJECT_PROPERTY"
        THEN handleValueEnd(leaveFrame(d))
        ELSE IF /\ chunk.type = "STRING_CHUNK"
                /\ chunk.role = "KEY"
                /\ cur.type = "OBJECT_PROPERTY"
        THEN [d EXCEPT !.state =
                 SetLast(d.state, [cur EXCEPT !.key = @ \o chunk.value])]
        ELSE d

(***************************************************************************)
(* JsonPathDetector.  A path is a sequence of object keys (strings) and   *)
(* array indexes (numbers).                                                *)
(***************************************************************************)
TypeError == [name |-> "TypeError", char |-> 0, position |-> 0]

NewDetector == [stack |-> <<>>, path |-> <<>>, out |-> <<>>, err |-> NoError]

\* Array.prototype.pop, which leaves an empty array empty
Pop(array) == IF array = <<>> THEN <<>> ELSE Front(array)

\* current.key++ of an array index
Increment(num) == Normalize(num.m + 1, 0)

\* the first statement of transform: a frame in state "next" becomes
\* active and its key is pushed to the path
activateNext(t) ==
    IF t.stack # <<>> /\ Last(t.stack).state = "next"
    THEN [t EXCEPT !.stack = SetLast(@, [Last(@) EXCEPT !.state = "active"]),
                   !.path = Append(@, Last(t.stack).key)]
    ELSE t

\* trackChunk with current.key = chunk.value for a chunk of a key
trackChunk_LastChunkIsKey(t, chunk) ==
    IF chunk.type = "OBJECT_START"
    THEN [t EXCEPT !.stack = Append(@, [type |-> "object",
                                        state |-> "pending",
                                        key |-> JStr(<<>>)])]
    ELSE IF chunk.type = "ARRAY_START"
    THEN [t EXCEPT !.stack = Append(@, [type |-> "array", state |-> "next",
                                        key |-> JNum(0, 0)])]
    ELSE IF chunk.type \in {"OBJECT_END", "ARRAY_END"}
    THEN [t EXCEPT !.stack = Pop(@), !.path = Pop(@)]
    ELSE IF t.stack = <<>>
    THEN [t EXCEPT !.err = TypeError]
    ELSE
    LET current == Last(t.stack)
    IN  IF current.type = "object"
        THEN IF chunk.type = "STRING_CHUNK" /\ chunk.role = "KEY"
             THEN [t EXCEPT !.stack = SetLast(@,
                      [current EXCEPT !.key = JStr(chunk.value)])]
             ELSE IF chunk.type = "COLON"
             THEN [t EXCEPT !.stack = SetLast(@,
                      [current EXCEPT !.state = "next"])]
             ELSE IF chunk.type = "COMMA"
             THEN [t EXCEPT !.path = Pop(@),
                            !.stack = SetLast(@,
                                [current EXCEPT !.state = "pending",
                                                !.key = JStr(<<>>)])]
             ELSE t
        ELSE IF chunk.type = "COMMA"
             THEN [t EXCEPT !.stack = SetLast(@,
                                [current EXCEPT !.state = "next",
                                                !.key = Increment(@)]),
                            !.path = Pop(@)]
             ELSE t

\* the second statement of transform: the stack and the path follow chunk
trackChunk(t, chunk) ==
    IF chunk.type = "OBJECT_START"
    THEN [t EXCEPT !.stack = Append(@, [type |-> "object",
                                        state |-> "pending",
                                        key |-> JStr(<<>>)])]
    ELSE IF chunk.type = "ARRAY_START"
    THEN [t EXCEPT !.stack = Append(@, [type |-> "array", state |-> "next",
                                        key |-> JNum(0, 0)])]
    ELSE IF chunk.type \in {"OBJECT_END", "ARRAY_END"}
    THEN [t EXCEPT !.stack = Pop(@), !.path = Pop(@)]
    ELSE IF t.stack = <<>>
    THEN [t EXCEPT !.err = TypeError]
    ELSE
    LET current == Last(t.stack)
    IN  IF current.type = "object"
        THEN IF chunk.type = "STRING_CHUNK" /\ chunk.role = "KEY"
             THEN [t EXCEPT !.stack = SetLast(@,
                      [current EXCEPT !.key = JStr(@.s \o chunk.value)])]
             ELSE IF chunk.type = "COLON"
             THEN [t EXCEPT !.stack = SetLast(@,
                      [current EXCEPT !.state = "next"])]
             ELSE IF chunk.type = "COMMA"
             THEN [t EXCEPT !.path = Pop(@),
                            !.stack = SetLast(@,
                                [current EXCEPT !.state = "pending",
                                                !.key = JStr(<<>>)])]
             ELSE t
        ELSE IF chunk.type = "COMMA"
             THEN [t EXCEPT !.stack = SetLast(@,
                                [current EXCEPT !.state = "next",
                                                !.key = Increment(@)]),
                            !.path = Pop(@)]
             ELSE t

\* { ...chunk, path }
WithPath(chunk, path) == [path |-> path] @@ chunk

\* the last statement of transform: the chunk is enqueued with a copy of
\* the path
enqueueWithPath(t, chunk) ==
    IF t.err # NoError THEN t
    ELSE [t EXCEPT !.out = Append(@, WithPath(chunk, t.path))]

JsonPathDetector_transform(t, chunk) ==
    enqueueWithPath(trackChunk(activateNext(t), chunk), chunk)

(***************************************************************************)
(* JsonPathSelector.  A selector is an array whose items are undefined,   *)
(* an array of keys and indexes, or one key or index; or it is a          *)
(* function.  currentPathPrefix is <<>> for undefined and <<path>> for a  *)
(* path.                                                                   *)
(***************************************************************************)
arrayStartsWith(array, startsWith) ==
    /\ Len(array) >= Len(startsWith)
    /\ \A i \in 1..Len(startsWith) : array[i] = startsWith[i]

\* the function (path) => path.length > 0 &&
\* matchesJsonPathSelector(path.slice(0, -1), selector)
childrenOf(selector) == [t |-> "function", selector |-> selector]

\* the callback of selector.every, for the item v of the selector and the
\* key or index of the path at its place
matchesSelectorItem_WithoutArrays(v, key) ==
    IF v.t = "undefined" THEN TRUE ELSE key = v

matchesSelectorItem(v, key) ==
    IF v.t = "undefined" THEN TRUE
    ELSE IF v.t = "array"
         THEN \E j \in 1..Len(v.items) : v.items[j] = key
    ELSE key = v

RECURSIVE matchesJsonPathSelector(_, _)
matchesJsonPathSelector(path, selector) ==
    IF selector.t = "function"
    THEN /\ Len(path) > 0
         /\ matchesJsonPathSelector(Front(path), selector.selector)
    ELSE /\ Len(path) = Len(selector.items)
         /\ \A i \in 1..Len(selector.items) :
               matchesSelectorItem(selector.items[i], path[i])

NewSelector == [currentPathPrefix |-> <<>>, out |-> <<>>, err |-> NoError]

InvalidSelector == [name |-> "InvalidSelector", char |-> 0, position |-> 0]

\* an index below zero among the items of a selector
HasNegativeIndex(selector) ==
    /\ selector.t = "array"
    /\ \E i \in 1..Len(selector.items) :
          \/ selector.items[i].t = "number" /\ selector.items[i].m < 0
          \/ /\ selector.items[i].t = "array"
             /\ \E k \in 1..Len(selector.items[i].items) :
                   /\ selector.items[i].items[k].t = "number"
                   /\ selector.items[i].items[k].m < 0

\* a constructor that throws for an index below zero
JsonPathSelector_constructor_Validating(selector) ==
    IF HasNegativeIndex(selector)
    THEN [NewSelector EXCEPT !.err = InvalidSelector]
    ELSE NewSelector

\* the constructor of JsonPathSelector, which stores the selector as it is
JsonPathSelector_constructor(selector) == NewSelector

JsonPathSelector_transform(s, selector, chunk) ==
    IF /\ s.currentPathPrefix # <<>>
       /\ arrayStartsWith(chunk.path, s.currentPathPrefix[1])
    THEN [s EXCEPT !.out = Append(@, chunk)]
    ELSE IF matchesJsonPathSelector(chunk.path, selector)
    THEN [s EXCEPT !.currentPathPrefix = <<chunk.path>>,
                   !.out = Append(@, chunk)]
    ELSE [s EXCEPT !.currentPathPrefix = <<>>]

(***************************************************************************)
(* ValueExtractor                                                          *)
(***************************************************************************)
ValueExtractor_transform(chunk) == chunk.value

(***************************************************************************)
(* A nested stream: a TransformStream without a transformer, of which a   *)
(* splitter holds the writer and hands out the readable side.  queue is   *)
(* what was written and is not yet read, read what its reader has read;   *)
(* state is "readable", "closed" once its reader has read its end, or     *)
(* "cancelled".                                                            *)
(***************************************************************************)
NewTransformStream ==
    [queue |-> <<>>, read |-> <<>>, closing |-> FALSE, state |-> "readable"]

\* writer.write(chunk), which a cancelled stream rejects
writerWrite(stream, chunk) ==
    IF stream.state = "readable" /\ ~stream.closing
    THEN [stream EXCEPT !.queue = Append(@, chunk)]
    ELSE stream

\* a close that does not end the stream
writerClose_Never(stream) == stream

\* writer.close(): the stream ends behind what is written to it
writerClose(stream) ==
    IF stream.state = "readable" THEN [stream EXCEPT !.closing = TRUE]
    ELSE stream

\* reader.read()
readerRead(stream) ==
    IF stream.state # "readable" THEN stream
    ELSE IF stream.queue # <<>>
    THEN [stream EXCEPT !.read = Append(@, Head(stream.queue)),
                        !.queue = Tail(@)]
    ELSE IF stream.closing THEN [stream EXCEPT !.state = "closed"]
    ELSE stream

\* writer.abort(reason): the readable side is errored with the reason
writerAbort(stream, reason) ==
    IF stream.state # "readable" \/ stream.closing THEN stream
    ELSE [reason |-> reason] @@
         [stream EXCEPT !.state = "errored", !.queue = <<>>]

\* a cancel that leaves the pending write pending
readableCancel_KeepsQueue(stream) ==
    IF stream.state # "readable" THEN stream
    ELSE [stream EXCEPT !.state = "cancelled"]

\* subStream.cancel()
readableCancel(stream) ==
    IF stream.state # "readable" THEN stream
    ELSE [stream EXCEPT !.state = "cancelled", !.queue = <<>>]

(***************************************************************************)
(* JsonPathStreamSplitter.  w is the splitter with the nested streams it  *)
(* has created: currentNestedStream is <<>> for undefined, out the nested *)
(* streams enqueued on the readable side, each with its path property.    *)
(***************************************************************************)
NewSplitter ==
    [currentNestedStream |-> <<>>, out |-> <<>>, read |-> 0,
     flushed |-> FALSE]

\* Object.assign(stream, properties)
assign(stream, properties) == properties @@ stream

\* a nested stream is named by its place among the nested streams
startNestedStream(w, path) ==
    LET stream == Len(w.nested) + 1
    IN  [splitter |->
             [w.splitter EXCEPT
                 !.currentNestedStream = <<[writer |-> stream, path |-> path]>>,
                 !.out = Append(@, stream)],
         nested |-> Append(w.nested,
                           assign(NewTransformStream, [path |-> path]))]

\* endNestedStream without writer.close()
endNestedStream_WithoutClose(w) ==
    [w EXCEPT !.splitter.currentNestedStream = <<>>]

\* endNestedStream(): the writer of the current nested stream is closed
endNestedStream(w) ==
    LET writer == w.splitter.currentNestedStream[1].writer
    IN  [splitter |-> [w.splitter EXCEPT !.currentNestedStream = <<>>],
         nested |-> [w.nested EXCEPT ![writer] = writerClose(@)]]

\* a slice that removes nothing
slice_Whole(path, start) == path

\* path.slice(start)
slice(path, start) == SubSeq(path, start + 1, Len(path))

\* the last statement of transform: the chunk is written to the current
\* nested stream without the path of that stream
writeToNestedStream(w, chunk) ==
    LET current == w.splitter.currentNestedStream[1]
    IN  [w EXCEPT !.nested[current.writer] =
            writerWrite(@, [chunk EXCEPT
                          !.path = slice(chunk.path, Len(current.path))])]

JsonPathStreamSplitter_transform(w, chunk) ==
    LET ended == IF /\ w.splitter.currentNestedStream # <<>>
                    /\ ~arrayStartsWith(chunk.path,
                           w.splitter.currentNestedStream[1].path)
                 THEN endNestedStream(w)
                 ELSE w
        started == IF ended.splitter.currentNestedStream = <<>>
                   THEN startNestedStream(ended, chunk.path)
                   ELSE ended
    IN  writeToNestedStream(started, chunk)

JsonPathStreamSplitter_flush(w) ==
    IF w.splitter.currentNestedStream # <<>>
    THEN [w EXCEPT
             !.nested[w.splitter.currentNestedStream[1].writer] = writerClose(@),
             !.splitter.flushed = TRUE]
    ELSE [w EXCEPT !.splitter.flushed = TRUE]

(***************************************************************************)
(* StreamSplitter, with the options of JsonPathStreamSplitter.  w is the  *)
(* splitter with the nested streams it has created.  nestedStreams and    *)
(* nestedWriters are functions of chunk indexes, currentNestedStream and  *)
(* currentWriter are <<>> for undefined, out is what is enqueued on the   *)
(* readable side of main.                                                  *)
(***************************************************************************)
NewStreamSplitter ==
    [lastChunkIdx |-> <<>>,
     nestedStreams |-> <<>>,
     currentNestedStream |-> <<>>,
     nestedWriters |-> <<>>,
     currentWriter |-> <<>>,
     out |-> <<>>]

getNestedStreamProperties(chunk) == [path |-> chunk.path]

belongsToNestedStream(chunk, stream) == arrayStartsWith(chunk.path, stream.path)

\* record[key] = item, and delete record[key]
Set(record, key, item) ==
    [k \in DOMAIN record \cup {key} |-> IF k = key THEN item ELSE record[k]]
Delete(record, key) == [k \in DOMAIN record \ {key} |-> record[k]]

\* handleChunk without the test for a chunk that is already handled
handleChunk_WithoutIndexTest(w, chunkIdx, chunk) ==
    LET this == w.streamSplitter
    IN  IF \/ this.currentNestedStream = <<>>
           \/ ~belongsToNestedStream(
                  chunk, w.nested[this.currentNestedStream[1]])
        THEN [streamSplitter |->
                 [this EXCEPT
                     !.nestedStreams = Set(@, chunkIdx, Len(w.nested) + 1),
                     !.currentNestedStream = <<Len(w.nested) + 1>>,
                     !.nestedWriters = Set(@, chunkIdx, Len(w.nested) + 1),
                     !.lastChunkIdx = <<chunkIdx>>],
              nested |->
                 Append(w.nested,
                        assign(NewTransformStream,
                               getNestedStreamProperties(chunk)))]
        ELSE [w EXCEPT !.streamSplitter.lastChunkIdx = <<chunkIdx>>]

handleChunk(w, chunkIdx, chunk) ==
    LET this == w.streamSplitter
    IN  IF this.lastChunkIdx # <<>> /\ chunkIdx <= this.lastChunkIdx[1]
        THEN w
        ELSE IF \/ this.currentNestedStream = <<>>
                \/ ~belongsToNestedStream(
                       chunk, w.nested[this.currentNestedStream[1]])
        THEN [streamSplitter |->
                 [this EXCEPT
                     !.nestedStreams = Set(@, chunkIdx, Len(w.nested) + 1),
                     !.currentNestedStream = <<Len(w.nested) + 1>>,
                     !.nestedWriters = Set(@, chunkIdx, Len(w.nested) + 1),
                     !.lastChunkIdx = <<chunkIdx>>],
              nested |->
                 Append(w.nested,
                        assign(NewTransformStream,
                               getNestedStreamProperties(chunk)))]
        ELSE [w EXCEPT !.streamSplitter.lastChunkIdx = <<chunkIdx>>]

enqueueNestedStream(w, chunkIdx) ==
    IF chunkIdx \in DOMAIN w.streamSplitter.nestedStreams
    THEN [w EXCEPT
             !.streamSplitter.out =
                 Append(@, w.streamSplitter.nestedStreams[chunkIdx]),
             !.streamSplitter.nestedStreams = Delete(@, chunkIdx)]
    ELSE w

transformMain(w, chunkIdx, chunk) ==
    enqueueNestedStream(handleChunk(w, chunkIdx, chunk), chunkIdx)

\* handleNestedChunk up to its first await: whether a writer waits for the
\* chunk, and the close of the current writer if there is one
closeCurrentWriter(w, chunkIdx) ==
    IF /\ chunkIdx \in DOMAIN w.streamSplitter.nestedWriters
       /\ w.streamSplitter.currentWriter # <<>>
    THEN [w EXCEPT !.nested[w.streamSplitter.currentWriter[1]] = writerClose(@)]
    ELSE w

\* handleNestedChunk from there to its last await: the writer that waits
\* for the chunk becomes the current one, and the chunk is written to the
\* current writer
writeToCurrentWriter(w, chunkIdx, chunk) ==
    LET this == w.streamSplitter
        writer == IF chunkIdx \in DOMAIN this.nestedWriters
                  THEN <<this.nestedWriters[chunkIdx]>>
                  ELSE this.currentWriter
    IN  [streamSplitter |->
             [this EXCEPT !.currentWriter = writer,
                          !.nestedWriters = Delete(@, chunkIdx)],
         nested |-> IF writer = <<>> THEN w.nested
                    ELSE [w.nested EXCEPT ![writer[1]] = writerWrite(@, chunk)]]

\* a write that is settled at once
settled_AtOnce(w) == TRUE

\* whether the promise of the last writer.write(chunk) is settled: the
\* chunk is read, or the nested stream is cancelled
settled(w) ==
    \/ w.streamSplitter.currentWriter = <<>>
    \/ w.nested[w.streamSplitter.currentWriter[1]].queue = <<>>

\* handleNestedClose that closes no writer
handleNestedClose_WithoutClose(w) == w

\* handleNestedClose(): every writer that is left is closed
handleNestedClose(w) ==
    LET this == w.streamSplitter
        writers == {this.nestedWriters[k] : k \in DOMAIN this.nestedWriters}
                   \cup {this.currentWriter[k] : k \in DOMAIN this.currentWriter}
    IN  [w EXCEPT !.nested =
            [stream \in DOMAIN w.nested |->
                IF stream \in writers THEN writerClose(w.nested[stream])
                ELSE w.nested[stream]]]

\* handleNestedAbort that aborts the current writer only
handleNestedAbort_CurrentWriter(w, reason) ==
    [w EXCEPT !.nested =
        [stream \in DOMAIN w.nested |->
            IF <<stream>> = w.streamSplitter.currentWriter
            THEN writerAbort(w.nested[stream], reason)
            ELSE w.nested[stream]]]

\* handleNestedAbort(reason): every writer that is left is aborted
handleNestedAbort(w, reason) ==
    LET this == w.streamSplitter
        writers == {this.nestedWriters[k] : k \in DOMAIN this.nestedWriters}
                   \cup {this.currentWriter[k] : k \in DOMAIN this.currentWriter}
    IN  [w EXCEPT !.nested =
            [stream \in DOMAIN w.nested |->
                IF stream \in writers
                THEN writerAbort(w.nested[stream], reason)
                ELSE w.nested[stream]]]

(***************************************************************************)
(* Inputs of the parser                                                    *)
(***************************************************************************)
\* the sets of characters of the freely generated texts
Alphabets ==
    { {Ord[c] : c \in {"{", "}", "\"", ":", ",", "1", " "}},
      {Ord[c] : c \in {"[", "]", ",", "0", "\"", " "}},
      {Ord[c] : c \in {"-", "0", "1", ".", "e", "+", " "}},
      {Ord[c] : c \in {"\"", "\\", "u", "n", "0", "a", "\n"}},
      {Ord[c] : c \in {"t", "r", "u", "e", "n", "l", " "}} }

\* the texts that are written whole, in every fragmentation
Documents ==
    { Str(<<"\"", "\\", "u", "0", "0", "4", "1", "\"">>),
      Str(<<"\"", "a", "\\", "u", "2", "6", "6", "5", "b", "\"">>),
      Str(<<"\"", "\\", "u", "0", "0", "e", "F", "\\", "n", "\"">>),
      Str(<<"\"", "\\", "n", "\\", "u", "0", "0", "4", "1", "\"">>),
      Str(<<"\"", "\\", "u", "0", "0", "4", "k", "\"">>),
      Str(<<"\"", "\\", "\"", "\\", "\\", "\\", "/", "\"">>),
      Str(<<"\"", "\\", "b", "\\", "f", "\\", "r", "\\", "t", "\"">>),
      Str(<<"\"", "a", "\t", "\"">>),
      Str(<<"\"", "\\", "a", "\"">>),
      Str(<<"{", "\"", "a", "\\", "n", "\"", ":", " ", "[", "1", "]", "}">>),
      Str(<<"{", "\"", "a", "b", "\"", " ", ":", " ", "\"", "c", "d", "\"", "}">>),
      Str(<<"{", "\"", "a", "\"", ":", "1", ",", "\"", "b", "\"", ":",
            "[", "t", "r", "u", "e", ",", "n", "u", "l", "l", "]", "}">>),
      Str(<<"{", "\"", "a", "\"", ":", "{", "}", ",", "\"", "b", "\"", ":", "2", "}">>),
      Str(<<"{", "\"", "a", "\"", " ", "1", "}">>),
      Str(<<"{", "\"", "a", "\"", ":", "1", ",", "}">>),
      Str(<<"{", "\"", "a", "\"", ":", "1", " ", "\"", "b", "\"", "}">>),
      Str(<<"{", "1", ":", "2", "}">>),
      Str(<<"[", "f", "a", "l", "s", "e", ",", " ", "-", "1", ".", "2", "3",
            "e", "2", "]">>),
      Str(<<"[", "1", "E", "+", "2", ",", "0", ".", "5", "e", "-", "1", "]">>),
      Str(<<"[", "f", "a", "l", "s", "y", "]">>),
      Str(<<"[", "1", ".", "]">>),
      Str(<<"[", "[", "]", ",", "{", "}", "]">>),
      Str(<<"[", "1", ",", "2", "}">>),
      Str(<<" ", "\n", "[", "\r", "\t", " ", "1", " ", "]", " ", "\n">>),
      Str(<<"-", "1", ".", "2", "3", "e", "2">>),
      Str(<<"1", "0", " ", " ", "2">>),
      Str(<<"-", "0", "1">>),
      Str(<<"[", "0", "0", "]">>),
      Str(<<"{", "}", " ", "{", "}">>),
      Str(<<"t", "r", "u", "e", "n", "u", "l", "l">>),
      Str(<<"RS", "\"", "a", "\"", "\n">>),
      Str(<<" ", "\n", " ">>),
      Str(<<"{", "\"", "a", "\"", ":", "[", "1", ",">>) }

\* The chunks of at most n characters of alphabet that a parser p reads
\* to their end or fails on at their last character: what follows the
\* character a parser fails on is never read.
RECURSIVE ViableChunks(_, _, _)
ViableChunks(p, alphabet, n) ==
    {<<>>} \cup
    IF n = 0 THEN {}
    ELSE UNION {
        UNION { IF q.err # NoError THEN {<<c>>}
                ELSE {<<c>> \o more : more \in ViableChunks(q, alphabet, n - 1)}
                : q \in {handleChar(p, [char |-> c, position |-> 0])} }
        : c \in alphabet }

(***************************************************************************)
(* Inputs of the serializer and of the path selector                      *)
(***************************************************************************)
\* the values of the space parameter
Spaces == {Undefined, JNum(2, 0), JStr(<<Ord["\t"]>>)}

Scalars ==
    { JNull, JBool(TRUE), JBool(FALSE),
      JNum(0, 0), JNum(-1, 0), JNum(15, -1), JNum(1, 21), JNum(15, -8),
      JNum(-1, -3), JNum(12, 1),
      JStr(<<>>), JStr(Str(<<"a">>)), JStr(Str(<<"\"", "\\", "\n", "/">>)),
      JStr(<<1, 127>>), JStr(<<55357, 56832>>), JStr(<<56832, 55357>>),
      JStr(Str(<<"\\", "u", "0", "0", "4", "1">>)) }

Nested ==
    { JArray(<<>>), JObject(<<>>), JArray(<<JNum(1, 0)>>),
      JObject(<<Entry(Str(<<"a">>), JNull)>>),
      JObject(<<Entry(Str(<<"a">>), JObject(<<>>))>>),
      JArray(<<JArray(<<>>), JStr(<<>>)>>) }

Keys == {<<>>, Str(<<"a">>), Str(<<"b", "\"", "\n">>)}

Few == {JNull, JNum(15, -1), JStr(Str(<<"a">>))}

\* the values written to the serializer: scalars, and arrays and objects
\* of at most two items up to three levels deep
Values ==
    Scalars \cup Nested
    \cup {JArray(<<v>>) : v \in Few \cup Nested}
    \cup {JArray(<<v, w>>) : v \in Few, w \in Few \cup {JObject(<<>>)}}
    \cup {JObject(<<Entry(k, v)>>) : k \in Keys, v \in Few \cup Nested}
    \cup {JObject(<<Entry(k[1], v), Entry(k[2], w)>>) :
            k \in {kk \in Keys \X Keys : kk[1] # kk[2] /\ kk[1] # <<>>},
            v \in Few \cup {JArray(<<>>)}, w \in Few}

\* the documents whose chunks the path detector annotates
PathDocuments ==
    { Str(<<"{", "\"", "a", "\"", ":", "{", "}", "}">>),
      Str(<<"{", "\"", "o", "\"", ":", "{", "\"", "a", "\"", ":", "{", "}",
            ",", "\"", "b", "\"", ":", "1", "}", "}">>),
      Str(<<"{", "\"", "a", "\"", ":", "{", "\"", "b", "\"", ":", "{", "}",
            "}", "}">>),
      Str(<<"{", "\"", "a", "\"", ":", "[", "]", ",", "\"", "b", "\"", ":",
            "[", "[", "]", "]", "}">>),
      Str(<<"[", "[", "]", ",", "{", "}", ",", "1", "]">>),
      Str(<<"{", "\"", "a", "\"", ":", "[", "1", ",", "{", "\"", "b", "\"",
            ":", "\"", "c", "\"", "}", "]", ",", "\"", "d", "\"", ":", "2",
            "}">>),
      Str(<<"[", "1", ",", "[", "2", ",", "3", "]", "]">>),
      Str(<<"{", " ", "\"", "a", "\"", " ", ":", " ", "1", " ", ",", " ",
            "\"", "b", "\"", ":", "[", " ", "]", " ", "}">>),
      Str(<<"[", "{", "\"", "a", "\"", ":", "1", "}", ",", "{", "\"", "a",
            "\"", ":", "t", "r", "u", "e", "}", "]">>),
      Str(<<"{", "\"", "a", "\\", "n", "\"", ":", "n", "u", "l", "l", ",",
            "\"", "\"", ":", "0", "}">>),
      Str(<<"{", "}">>),
      Str(<<"\"", "a", "\"">>),
      Str(<<"[", "]", "\n">>) }

\* the selectors of the path selector
Selectors ==
    { JArray(<<>>),
      JArray(<<JStr(Str(<<"a">>))>>),
      JArray(<<Undefined>>),
      JArray(<<JStr(Str(<<"a">>)), Undefined>>),
      JArray(<<JArray(<<JStr(Str(<<"o">>)), JStr(Str(<<"a">>)),
                        JNum(1, 0)>>),
               JArray(<<JStr(Str(<<"a">>)), JStr(Str(<<"b">>)),
                        JNum(0, 0)>>)>>),
      JArray(<<JNum(1, 0)>>) }

(***************************************************************************)
(* The streams.  Each transform stream reads the chunks its source has    *)
(* enqueued, one per step, in their order.                                 *)
(***************************************************************************)
VARIABLES
    state,                    \* JsonParser.state
    lengthBeforeCurrentChunk, \* JsonParser.lengthBeforeCurrentChunk
    output,                   \* the chunks enqueued on the readable side
    failure,                  \* the error the stream has failed with
    phase,                    \* "writable", "closed" or "errored"
    input,                    \* the characters read so far
    chunkCount,               \* the number of chunks written so far
    alphabet,                 \* the characters a freely generated text is
                              \* made of, or {} when a document is written
    rest,                     \* what is left of the document to write
    route,                    \* the streams that are piped together
    value,                    \* the value written to the JsonSerializer
    space,                    \* JsonSerializer.space
    serialized,               \* the chunks the JsonSerializer has enqueued
    stringified,              \* the strings the JsonStringifier has enqueued
    serializer,               \* the error JsonSerializer.transform has
                              \* thrown, its position, the stream tags
                              \* and the readable side
    abortHandling,            \* an AbortHandlingTransformStream: its abort
                              \* callback, its sides and the calls made
    deserializer,             \* JsonDeserializer.state and what it enqueued
    deserializerRead,         \* the number of chunks it has read
    detector,                 \* JsonPathDetector.stack and .path, what it
                              \* has enqueued and the error it has thrown
    selectorExpression,       \* JsonPathSelector.selector
    selector,                 \* JsonPathSelector.currentPathPrefix and what
                              \* it has enqueued
    selectorRead,             \* the number of chunks it has read
    extracted,                \* the values the ValueExtractor has enqueued
    chunks,                   \* the chunks written to a stream splitter
    splitter,                 \* JsonPathStreamSplitter.currentNestedStream,
                              \* the nested streams it has enqueued and
                              \* the number of chunks it has read
    nested,                   \* the nested streams: what was written to
                              \* each, what was read from it, its state
    streamSplitter,           \* the fields of StreamSplitter
    branches                  \* the two branches of the tee of
                              \* StreamSplitter and its main stream

parserVars == <<state, lengthBeforeCurrentChunk, output, failure, phase,
                input, chunkCount, alphabet, rest>>

serializerVars == <<value, space, serialized, stringified, serializer,
                    abortHandling>>

deserializerVars == <<deserializer, deserializerRead>>

pathVars == <<detector, selectorExpression, selector, selectorRead>>

splitVars == <<extracted, chunks, splitter, nested, streamSplitter,
               branches>>

vars == <<parserVars, route, serializerVars, deserializerVars, pathVars,
          splitVars>>

\* a JsonParser right after its construction
ParserInit ==
    /\ state = NewParser.state
    /\ lengthBeforeCurrentChunk = 0
    /\ output = <<>>
    /\ failure = NoError
    /\ phase = "writable"
    /\ input = <<>>
    /\ chunkCount = 0

\* the two branches of the tee of a StreamSplitter, with the main stream:
\* main and nested count the chunks transformMain and handleNestedChunk are
\* done with, pc is where handleNestedChunk or handleNestedClose stands,
\* taken counts the reads of the consumer on the readable side of main,
\* done is whether handleNestedClose has run and rejected whether the
\* promise of nestedInput.pipeTo(nested) was rejected; aborted is <<>> or
\* <<reason>> once the writable side is aborted, mainErrored <<>> or
\* <<reason>> once the readable side of main is errored, and nestedAborted
\* whether handleNestedAbort has run; written counts the chunks whose
\* write to the splitter is done and pulled those the tee has read
NewBranches ==
    [main |-> 0, mainClosed |-> FALSE, nested |-> 0, pc |-> "idle",
     taken |-> 0, done |-> FALSE, rejected |-> FALSE,
     aborted |-> <<>>, mainErrored |-> <<>>, nestedAborted |-> FALSE,
     written |-> 0, pulled |-> 0]

\* the stream splitters right after their construction
SplittersInit ==
    /\ splitter = NewSplitter
    /\ nested = <<>>
    /\ streamSplitter = NewStreamSplitter
    /\ branches = NewBranches

\* the other streams right after their construction
StreamsInit ==
    /\ serialized = <<>>
    /\ stringified = <<>>
    /\ serializer = NewSerializer
    /\ abortHandling = NewAbortHandlingTransformStream
    /\ deserializer = NewDeserializer
    /\ deserializerRead = 0
    /\ detector = NewDetector
    /\ selector = NewSelector
    /\ selectorRead = 0
    /\ extracted = <<>>
    /\ SplittersInit

thisParser == [state |-> state, out |-> output, err |-> failure]

\* writer.write(chunk): JsonParser.transform
ParserWrite(chunk) ==
    /\ phase = "writable"
    /\ \E q \in {transform(thisParser, chunk, lengthBeforeCurrentChunk)} :
       LET read == IF q.err.name = "UnexpectedCharError"
                   THEN q.err.position - lengthBeforeCurrentChunk + 1
                   ELSE Len(chunk)
       IN  /\ state' = q.state
           /\ output' = q.out
           /\ failure' = q.err
           /\ phase' = IF q.err # NoError THEN "errored" ELSE "writable"
           /\ lengthBeforeCurrentChunk' =
                  IF q.err # NoError THEN lengthBeforeCurrentChunk
                  ELSE lengthBeforeCurrentChunk + Len(chunk)
           /\ input' = input \o SubSeq(chunk, 1, read)
           /\ chunkCount' = chunkCount + 1

\* writer.close(): JsonParser.flush
ParserClose ==
    /\ phase = "writable"
    /\ \E q \in {flush(thisParser)} :
           /\ state' = q.state
           /\ output' = q.out
           /\ failure' = q.err
           /\ phase' = IF q.err # NoError THEN "errored" ELSE "closed"
    /\ UNCHANGED <<lengthBeforeCurrentChunk, input, chunkCount>>

(***************************************************************************)
(* Spec: text is written to a JsonParser in chunks                         *)
(***************************************************************************)
NextChunks ==
    IF alphabet # {}
    THEN ViableChunks(thisParser, alphabet,
                      MaxLen - Len(input))
    ELSE {SubSeq(rest, 1, k) : k \in 0..Len(rest)}

Write(chunk) ==
    /\ chunkCount < (IF alphabet # {} THEN MaxChunks ELSE MaxDocChunks)
    /\ ParserWrite(chunk)
    /\ rest' = SubSeq(rest, Len(chunk) + 1, Len(rest))
    /\ UNCHANGED <<alphabet, route, serializerVars, deserializerVars,
                   pathVars, splitVars>>

Close ==
    /\ rest = <<>>
    /\ ParserClose
    /\ UNCHANGED <<alphabet, rest, route, serializerVars, deserializerVars,
                   pathVars, splitVars>>

Init ==
    /\ ParserInit
    /\ StreamsInit
    /\ \/ alphabet \in Alphabets /\ rest = <<>>
       \/ alphabet = {} /\ rest \in Documents
    /\ route = "parser"
    /\ value = Undefined
    /\ space = Undefined
    /\ selectorExpression = JArray(<<>>)
    /\ chunks = <<>>

Next ==
    \/ \E chunk \in NextChunks : Write(chunk)
    \/ Close

Spec == Init /\ [][Next]_vars

(***************************************************************************)
(* Multi: texts of several documents are written in chunks to a           *)
(* JsonParser with the option multi                                        *)
(***************************************************************************)
MultiDocumentTexts ==
    { Str(<<"\"", "a", "\"">>), Str(<<"1", "0">>),
      Str(<<"{", "\"", "a", "\"", ":", "[", "1", "]", "}">>),
      Str(<<"t", "r", "u", "e">>) }

BeforeFirst == {<<>>, Str(<<"RS">>)}
Delimiters == {Str(<<"\n">>), Str(<<"\n", "RS">>), Str(<<"RS">>)}
AfterLast == {<<>>, Str(<<"\n">>)}

\* the inputs: the text and the documents in it; the last ones end inside
\* a document
MultiInputs ==
    { [text |-> t, documents |-> <<>>] :
        t \in {<<>>, Str(<<"RS">>), Str(<<" ", "\n">>),
               Str(<<"RS", "\n", "RS", " ">>)} }
    \cup { [text |-> b \o d \o a, documents |-> <<d>>] :
             b \in BeforeFirst, d \in MultiDocumentTexts, a \in AfterLast }
    \cup { [text |-> b \o d \o e \o f \o a, documents |-> <<d, f>>] :
             b \in BeforeFirst, d \in MultiDocumentTexts, e \in Delimiters,
             f \in MultiDocumentTexts, a \in AfterLast }
    \cup { [text |-> Str(<<"RS", "1", "\n", "RS", "[", "]", "\n", "RS",
                           "\"", "b", "\"", "\n">>),
            documents |-> <<Str(<<"1">>), Str(<<"[", "]">>),
                            Str(<<"\"", "b", "\"">>)>>] }
    \cup { [text |-> t, documents |-> <<>>] :
             t \in {Str(<<"RS", "\"", "a", "\"", "\n", "RS", "\"", "b">>),
                    Str(<<"1", " ", "[">>),
                    Str(<<"{", "}", "\n", "{", "\"", "a", "\"", ":">>)} }

MultiWrite(chunk) ==
    /\ chunkCount < MaxDocChunks
    /\ phase = "writable"
    /\ \E q \in {transformMulti(thisParser, chunk,
                                lengthBeforeCurrentChunk)} :
       LET read == IF q.err.name = "UnexpectedCharError"
                   THEN q.err.position - lengthBeforeCurrentChunk + 1
                   ELSE Len(chunk)
       IN  /\ state' = q.state
           /\ output' = q.out
           /\ failure' = q.err
           /\ phase' = IF q.err # NoError THEN "errored" ELSE "writable"
           /\ lengthBeforeCurrentChunk' =
                  IF q.err # NoError THEN lengthBeforeCurrentChunk
                  ELSE lengthBeforeCurrentChunk + Len(chunk)
           /\ input' = input \o SubSeq(chunk, 1, read)
           /\ chunkCount' = chunkCount + 1
    /\ rest' = SubSeq(rest, Len(chunk) + 1, Len(rest))
    /\ UNCHANGED <<alphabet, route, serializerVars, deserializerVars,
                   pathVars, splitVars>>

MultiClose ==
    /\ rest = <<>>
    /\ phase = "writable"
    /\ \E q \in {flushMulti(thisParser)} :
           /\ state' = q.state
           /\ output' = q.out
           /\ failure' = q.err
           /\ phase' = IF q.err # NoError THEN "errored" ELSE "closed"
    /\ UNCHANGED <<lengthBeforeCurrentChunk, input, chunkCount, alphabet,
                   rest, route, serializerVars, deserializerVars, pathVars,
                   splitVars>>

MultiInit ==
    /\ ParserInit
    /\ StreamsInit
    /\ alphabet = {}
    /\ rest \in {m.text : m \in MultiInputs}
    /\ route = "multi"
    /\ value = Undefined
    /\ space = Undefined
    /\ selectorExpression = JArray(<<>>)
    /\ chunks = <<>>

MultiNext ==
    \/ \E k \in 0..Len(rest) : MultiWrite(SubSeq(rest, 1, k))
    \/ MultiClose

Multi == MultiInit /\ [][MultiNext]_vars

(***************************************************************************)
(* RoundTrip: a value is written to a JsonSerializer that is piped        *)
(* either to a JsonDeserializer ("direct") or through a JsonStringifier   *)
(* and a JsonParser to a JsonDeserializer ("text")                         *)
(***************************************************************************)
\* JsonSerializer.transform for the value written by serializeJsonValue
Serialize ==
    /\ serialized = <<>>
    /\ serializer.err = NoError
    /\ \E normalizedSpace \in {normalizeSpace(space)} :
           IF normalizedSpace = RangeError
           THEN /\ serializer' = [serializer EXCEPT !.err = RangeError]
                /\ UNCHANGED serialized
           ELSE /\ serialized' = serializeJson(value, space, <<>>)
                /\ UNCHANGED serializer
    /\ UNCHANGED <<parserVars, route, abortHandling, value, space, stringified,
                   deserializerVars, pathVars, splitVars>>

\* JsonStringifier.transform for the next chunk of the serializer
Stringify ==
    /\ route = "text"
    /\ Len(stringified) < Len(serialized)
    /\ stringified' =
           Append(stringified, stringify(serialized[Len(stringified) + 1]))
    /\ UNCHANGED <<parserVars, route, abortHandling, value, space, serialized, serializer,
                   deserializerVars, pathVars, splitVars>>

\* JsonParser.transform for the next string of the stringifier
Parse ==
    /\ chunkCount < Len(stringified)
    /\ ParserWrite(stringified[chunkCount + 1])
    /\ UNCHANGED <<alphabet, rest, route, serializerVars, deserializerVars,
                   pathVars, splitVars>>

\* JsonParser.flush, once the stringifier has closed and all it enqueued
\* is read
ParseEnd ==
    /\ serialized # <<>>
    /\ Len(stringified) = Len(serialized)
    /\ chunkCount = Len(stringified)
    /\ ParserClose
    /\ UNCHANGED <<alphabet, rest, route, serializerVars, deserializerVars,
                   pathVars, splitVars>>

\* the chunks piped to the deserializer
DeserializerSource ==
    IF route = "direct" THEN serialized
    ELSE IF route = "text" THEN output
    ELSE IF route = "keys" THEN detector.out
    ELSE selector.out

\* JsonDeserializer.transform for the next chunk of its source
Deserialize ==
    /\ deserializerRead < Len(DeserializerSource)
    /\ deserializer' =
           JsonDeserializer_transform(
               deserializer, DeserializerSource[deserializerRead + 1])
    /\ deserializerRead' = deserializerRead + 1
    /\ UNCHANGED <<parserVars, route, serializerVars, pathVars,
                   splitVars>>

RoundTripInit ==
    /\ ParserInit
    /\ StreamsInit
    /\ alphabet = {}
    /\ rest = <<>>
    /\ route \in {"direct", "text"}
    /\ value \in Values
    /\ space \in Spaces
    /\ selectorExpression = JArray(<<>>)
    /\ chunks = <<>>

RoundTripNext ==
    \/ Serialize
    \/ Stringify
    \/ Parse
    \/ ParseEnd
    \/ Deserialize

RoundTrip == RoundTripInit /\ [][RoundTripNext]_vars

(***************************************************************************)
(* serializeJsonValue(value, space) piped through a JsonStringifier, for  *)
(* values with entries that are left out and for the values of space      *)
(***************************************************************************)
\* the values of the entries of the objects written
EntryValues ==
    { JNum(1, 0), Undefined, Symbol, Function(Undefined),
      Function(JStr(Str(<<"a">>))) }

EntryKeys == <<Str(<<"a">>), Str(<<"b">>), Str(<<"c">>), Str(<<"d">>)>>

MaxEntries == 3

\* the lists of at most MaxEntries entries, with the keys of EntryKeys
EntryLists ==
    UNION { { [i \in 1..n |-> Entry(EntryKeys[i], vs[i])] :
              vs \in [1..n -> EntryValues] } : n \in 0..MaxEntries }

\* objects whose first, middle and last entries are left out, objects
\* inside arrays and objects, and values that are no JSON values
Mixed ==
    { JObject(<<Entry(Str(<<"a">>), Undefined),
                Entry(Str(<<"b">>), JNum(1, 0)),
                Entry(Str(<<"c">>), Symbol),
                Entry(Str(<<"d">>), Function(JNull)),
                Entry(Str(<<"e">>), Function(Undefined))>>),
      JObject(<<Entry(Str(<<"a">>), Symbol),
                Entry(Str(<<"b">>),
                      JObject(<<Entry(Str(<<"c">>), Undefined),
                                Entry(Str(<<"d">>), JArray(<<Undefined>>)),
                                Entry(Str(<<"e">>), Undefined)>>)),
                Entry(Str(<<"f">>), Function(Undefined))>>),
      JArray(<<JObject(<<Entry(Str(<<"a">>), Undefined)>>), Symbol,
               ObjectStream(<<Entry(Str(<<"b">>), Undefined),
                              Entry(Str(<<"c">>), JBool(TRUE)),
                              Entry(Str(<<"d">>), JBool(FALSE))>>)>>),
      JObject(<<Entry(Str(<<"a">>),
                      JArray(<<JArray(<<JNum(1, 0), JObject(<<>>)>>),
                               JObject(<<Entry(Str(<<"b">>),
                                               JArray(<<>>))>>)>>))>>),
      Function(JObject(<<Entry(Str(<<"a">>), Function(Undefined)),
                         Entry(Str(<<"b">>), JNull)>>)),
      ArrayStream(<<JNum(1, 0), Undefined>>),
      StringStream(<<Str(<<"a">>), Str(<<"\"">>)>>),
      Undefined, Symbol, Function(Undefined) }

SerializedValues ==
    Values \cup Mixed
    \cup {JObject(entries) : entries \in EntryLists}
    \cup {ObjectStream(entries) : entries \in EntryLists}

\* the values of the space parameter: missing, numbers and strings
SerializerSpaces ==
    { Undefined, JNum(0, 0), JNum(-1, 0), JNum(-5, -1), JNum(1, 0),
      JNum(25, -1), JNum(11, 0), JStr(<<>>), JStr(Str(<<"\t">>)),
      JStr(Str(<<"-", " ">>)),
      JStr([i \in 1..11 |-> Ord["-"]]) }

SerializingInit ==
    /\ ParserInit
    /\ StreamsInit
    /\ alphabet = {}
    /\ rest = <<>>
    /\ route = "text"
    /\ value \in SerializedValues
    /\ space \in SerializerSpaces
    /\ selectorExpression = JArray(<<>>)
    /\ chunks = <<>>

SerializingNext ==
    \/ Serialize
    \/ Stringify

Serializing == SerializingInit /\ [][SerializingNext]_vars

(***************************************************************************)
(* Tagged: serializeJsonValue(value) for a StringStream or an array of    *)
(* StringStreams.  The sources of the streams deliver their strings and   *)
(* close, the consumer reads or cancels the readable side of the          *)
(* serializer, and transform runs the generator serializeJson step by     *)
(* step.                                                                   *)
(***************************************************************************)
TagContents ==
    { <<>>, <<Str(<<"a">>)>>, <<Str(<<"a">>), Str(<<"b">>)>> }

TaggedValues ==
    {StringStream(c) : c \in TagContents}
    \cup {JArray(<<StringStream(c), StringStream(d)>>) :
            c \in TagContents, d \in TagContents}

\* the stream tags in a value, in the order serializeJson comes to them
Tags(val) ==
    IF val.t = "stringStream" THEN <<val>> ELSE val.items

\* the steps of serializeJson: a chunk it yields, or the loop over
\* streamToIterable of the k-th tag
YieldStep(chunk) == [op |-> "yield", chunk |-> chunk, tag |-> 0]
LoopStep(k) == [op |-> "loop", chunk |-> stringEnd("VALUE", <<>>), tag |-> k]

TagSteps(k) ==
    <<YieldStep(stringStart("VALUE", <<Ord["\""]>>)), LoopStep(k),
      YieldStep(stringEnd("VALUE", <<Ord["\""]>>))>>

Steps(val) ==
    IF val.t = "stringStream" THEN TagSteps(1)
    ELSE <<YieldStep(arrayStart(<<Ord["["]>>))>>
         \o Flatten([k \in 1..Len(val.items) |->
                (IF k > 1 THEN <<YieldStep(comma(<<Ord[","]>>))>> ELSE <<>>)
                \o TagSteps(k)])
         \o <<YieldStep(arrayEnd(<<Ord["]"]>>))>>

\* the stream has delivered all its source gave it and is closed
Exhausted(tag) == tag.closed /\ tag.taken = tag.enqueued

\* reader.cancel() left out of the finally block of streamToIterable
readerCancel_Never(tag) == tag

\* reader.cancel(), which does nothing on a closed stream
readerCancel(tag) ==
    IF Exhausted(tag) THEN tag ELSE [tag EXCEPT !.cancelled = TRUE]

\* the source of the k-th tag enqueues its next string
TagEnqueue(k) ==
    /\ k \in 1..Len(Tags(value))
    /\ ~serializer.tags[k].cancelled
    /\ serializer.tags[k].enqueued < Len(Tags(value)[k].chunks)
    /\ serializer' = [serializer EXCEPT !.tags[k].enqueued = @ + 1]
    /\ UNCHANGED <<parserVars, route, abortHandling, value, space, serialized, stringified,
                   deserializerVars, pathVars, splitVars>>

\* the source of the k-th tag closes its stream
TagClose(k) ==
    /\ k \in 1..Len(Tags(value))
    /\ ~serializer.tags[k].cancelled
    /\ ~serializer.tags[k].closed
    /\ serializer.tags[k].enqueued = Len(Tags(value)[k].chunks)
    /\ serializer' = [serializer EXCEPT !.tags[k].closed = TRUE]
    /\ UNCHANGED <<parserVars, route, abortHandling, value, space, serialized, stringified,
                   deserializerVars, pathVars, splitVars>>

\* the consumer reads from the readable side of the serializer
ConsumerRead ==
    /\ serializer.readable = "readable"
    /\ serializer.taken <= Len(serialized)
    /\ serializer.taken < Len(Steps(value)) + 3
    /\ serializer' = [serializer EXCEPT !.taken = @ + 1]
    /\ UNCHANGED <<parserVars, route, abortHandling, value, space, serialized, stringified,
                   deserializerVars, pathVars, splitVars>>

\* the consumer cancels the readable side of the serializer
ConsumerCancel ==
    /\ serializer.readable = "readable"
    /\ serializer.pc # "done"
    /\ serializer' = [serializer EXCEPT !.readable = "cancelled"]
    /\ UNCHANGED <<parserVars, route, abortHandling, value, space, serialized, stringified,
                   deserializerVars, pathVars, splitVars>>

\* the write of serializeJsonValue waits for a read of the consumer, and
\* then transform is called; after a cancel the write is rejected without
\* a call of transform
TransformStart ==
    /\ serializer.pc = "write"
    /\ \/ /\ serializer.readable = "readable"
          /\ serializer.taken > 0
          /\ serializer' = [serializer EXCEPT !.pc = "transform"]
       \/ /\ serializer.readable = "cancelled"
          /\ serializer' = [serializer EXCEPT !.pc = "failed"]
    /\ UNCHANGED <<parserVars, route, abortHandling, value, space, serialized, stringified,
                   deserializerVars, pathVars, splitVars>>

\* controller.enqueue(chunk) in the loop of transform: it throws when the
\* readable side is cancelled
TransformYield ==
    /\ serializer.pc = "transform"
    /\ serializer.step <= Len(Steps(value))
    /\ Steps(value)[serializer.step].op = "yield"
    /\ IF serializer.readable = "cancelled"
       THEN /\ serializer' = [serializer EXCEPT !.pc = "failed",
                                                !.err = TypeError]
            /\ UNCHANGED serialized
       ELSE /\ serialized' =
                   Append(serialized, Steps(value)[serializer.step].chunk)
            /\ serializer' =
                   [serializer EXCEPT
                        !.step = @ + 1,
                        !.pc = IF serializer.step = Len(Steps(value))
                               THEN "done" ELSE "transform"]
    /\ UNCHANGED <<parserVars, route, abortHandling, value, space, stringified,
                   deserializerVars, pathVars, splitVars>>

\* stream.getReader() at the start of streamToIterable
TagGetReader ==
    /\ serializer.pc = "transform"
    /\ serializer.step <= Len(Steps(value))
    /\ Steps(value)[serializer.step].op = "loop"
    /\ LET k == Steps(value)[serializer.step].tag
       IN  /\ serializer.tags[k].readers = 0
           /\ serializer' = [serializer EXCEPT !.tags[k].readers = @ + 1]
    /\ UNCHANGED <<parserVars, route, abortHandling, value, space, serialized, stringified,
                   deserializerVars, pathVars, splitVars>>

\* one round of the loop of streamToIterable: reader.read() gives a
\* string, which is yielded as a StringChunk and enqueued, or it gives
\* done; the finally block runs when the loop is left
TagRead ==
    /\ serializer.pc = "transform"
    /\ serializer.step <= Len(Steps(value))
    /\ Steps(value)[serializer.step].op = "loop"
    /\ LET k == Steps(value)[serializer.step].tag
           tag == serializer.tags[k]
           string == Tags(value)[k].chunks[tag.taken + 1]
       IN  /\ tag.readers = 1
           /\ IF tag.taken < tag.enqueued
              THEN IF serializer.readable = "cancelled"
                   THEN /\ serializer' =
                               [serializer EXCEPT
                                    !.pc = "failed",
                                    !.err = TypeError,
                                    !.tags[k] = readerCancel(
                                        [tag EXCEPT !.taken = @ + 1])]
                        /\ UNCHANGED serialized
                   ELSE /\ serializer' =
                               [serializer EXCEPT !.tags[k].taken = @ + 1]
                        /\ serialized' =
                               Append(serialized,
                                      stringChunk(string, "VALUE",
                                          QuoteJSONString(string, 1)))
              ELSE /\ tag.closed
                   /\ serializer' =
                          [serializer EXCEPT !.step = @ + 1,
                                             !.tags[k] = readerCancel(tag)]
                   /\ UNCHANGED serialized
    /\ UNCHANGED <<parserVars, route, abortHandling, value, space, stringified,
                   deserializerVars, pathVars, splitVars>>

TaggedInit ==
    /\ ParserInit
    /\ StreamsInit
    /\ alphabet = {}
    /\ rest = <<>>
    /\ route = "tagged"
    /\ value \in TaggedValues
    /\ space = Undefined
    /\ selectorExpression = JArray(<<>>)
    /\ chunks = <<>>

TaggedNext ==
    \/ \E k \in 1..MaxTags : TagEnqueue(k)
    \/ \E k \in 1..MaxTags : TagClose(k)
    \/ ConsumerRead
    \/ ConsumerCancel
    \/ TransformStart
    \/ TransformYield
    \/ TagGetReader
    \/ TagRead

Tagged == TaggedInit /\ [][TaggedNext]_vars

(***************************************************************************)
(* Aborting: an AbortHandlingTransformStream without a transformer is     *)
(* written to, closed or aborted by a producer and read by a consumer     *)
(***************************************************************************)
MaxWrites == 2

AbortHandlingUnchanged ==
    UNCHANGED <<parserVars, route, value, space, serialized, stringified,
                serializer, deserializerVars, pathVars, splitVars>>

\* new AbortHandlingTransformStream({ abort })
AbortHandlingConstruct ==
    /\ abortHandling.writable = "new"
    /\ \E callback \in AbortCallbacks :
           abortHandling' = [abortHandling EXCEPT !.callback = callback,
                                                  !.writable = "writable"]
    /\ AbortHandlingUnchanged

\* writer.write(chunk) of the producer
AbortHandlingWrite ==
    /\ abortHandling.writable = "writable"
    /\ abortHandling.inFlight = <<>>
    /\ abortHandling.written < MaxWrites
    /\ abortHandling' =
           [abortHandling EXCEPT !.inFlight = <<abortHandling.written + 1>>,
                                 !.written = @ + 1]
    /\ AbortHandlingUnchanged

\* the write in flight reaches the transformer once a read of the consumer
\* waits, and is enqueued on the readable side
AbortHandlingTransform ==
    /\ abortHandling.inFlight # <<>>
    /\ abortHandling.readable = "readable"
    /\ abortHandling.taken > Len(abortHandling.out)
    /\ abortHandling' =
           [abortHandling EXCEPT !.out = Append(@, abortHandling.inFlight[1]),
                                 !.inFlight = <<>>]
    /\ AbortHandlingUnchanged

\* reader.read() of the consumer
AbortHandlingRead ==
    /\ abortHandling.writable # "new"
    /\ abortHandling.readable = "readable"
    /\ abortHandling.taken <= Len(abortHandling.out)
    /\ abortHandling' = [abortHandling EXCEPT !.taken = @ + 1]
    /\ AbortHandlingUnchanged

\* writer.close() of the producer, after its writes
AbortHandlingClose ==
    /\ abortHandling.writable = "writable"
    /\ abortHandling.inFlight = <<>>
    /\ abortHandling' = [abortHandling EXCEPT !.writable = "closed",
                                              !.readable = "closed"]
    /\ AbortHandlingUnchanged

\* writer.abort(reason) of the producer
AbortHandlingAbort ==
    /\ abortHandling.writable = "writable"
    /\ \E reason \in AbortReasons :
           abortHandling' = [abortHandling EXCEPT !.writable = "erroring",
                                                  !.reason = <<reason>>]
    /\ AbortHandlingUnchanged

\* the abort algorithm of the writable side, once no write is in flight
AbortHandlingAborted ==
    /\ abortHandling.writable = "erroring"
    /\ abortHandling.inFlight = <<>>
    /\ abortHandling' =
           [abortAlgorithm(abortHandling, abortHandling.reason[1])
               EXCEPT !.writable = "errored"]
    /\ AbortHandlingUnchanged

AbortingInit ==
    /\ ParserInit
    /\ StreamsInit
    /\ alphabet = {}
    /\ rest = <<>>
    /\ route = "aborting"
    /\ value = Undefined
    /\ space = Undefined
    /\ selectorExpression = JArray(<<>>)
    /\ chunks = <<>>

AbortingNext ==
    \/ AbortHandlingConstruct
    \/ AbortHandlingWrite
    \/ AbortHandlingTransform
    \/ AbortHandlingRead
    \/ AbortHandlingClose
    \/ AbortHandlingAbort
    \/ AbortHandlingAborted

Aborting == AbortingInit /\ [][AbortingNext]_vars

\* The consumer keeps reading, a write in flight reaches the transformer
\* when a read waits for it, and the abort algorithm runs once no write is
\* in flight.
AbortingFair ==
    /\ Aborting
    /\ WF_vars(AbortHandlingRead)
    /\ WF_vars(AbortHandlingTransform)
    /\ WF_vars(AbortHandlingAborted)

(***************************************************************************)
(* Paths: a document is written to a JsonParser that is piped through a   *)
(* JsonPathDetector to a JsonPathSelector                                  *)
(***************************************************************************)
\* the document is written as one chunk
WriteDocument ==
    /\ rest # <<>>
    /\ ParserWrite(rest)
    /\ rest' = <<>>
    /\ UNCHANGED <<alphabet, route, serializerVars, deserializerVars,
                   pathVars, splitVars>>

\* JsonPathDetector.transform for the next chunk of the parser
Detect ==
    /\ detector.err = NoError
    /\ Len(detector.out) < Len(output)
    /\ detector' =
           JsonPathDetector_transform(detector, output[Len(detector.out) + 1])
    /\ UNCHANGED <<parserVars, route, serializerVars, deserializerVars,
                   selectorExpression, selector, selectorRead, splitVars>>

\* JsonPathSelector.transform for the next chunk of the detector
Select ==
    /\ selectorRead < Len(detector.out)
    /\ selector' =
           JsonPathSelector_transform(selector, selectorExpression,
                                      detector.out[selectorRead + 1])
    /\ selectorRead' = selectorRead + 1
    /\ UNCHANGED <<parserVars, route, serializerVars, deserializerVars,
                   detector, selectorExpression, splitVars>>

PathsInit ==
    /\ ParserInit
    /\ StreamsInit
    /\ alphabet = {}
    /\ rest \in PathDocuments
    /\ route = "paths"
    /\ value = Undefined
    /\ space = Undefined
    /\ selectorExpression \in Selectors
    /\ chunks = <<>>

PathsNext ==
    \/ WriteDocument
    \/ Close
    \/ Detect
    \/ Select

Paths == PathsInit /\ [][PathsNext]_vars

(***************************************************************************)
(* Selecting: a JsonPathSelector is constructed, and then the document is *)
(* written to the JsonParser that is piped through a JsonPathDetector to  *)
(* it                                                                      *)
(***************************************************************************)
\* selectors with an index below zero
MalformedSelectors ==
    { JArray(<<JNum(-1, 0)>>),
      JArray(<<JStr(Str(<<"a">>)), JNum(-1, 0)>>),
      JArray(<<Undefined, JNum(-2, 0)>>),
      JArray(<<JArray(<<JNum(-1, 0), JNum(-2, 0)>>)>>) }

SelectingDocuments ==
    { Str(<<"[", "1", ",", "[", "2", ",", "3", "]", "]">>),
      Str(<<"{", "\"", "a", "\"", ":", "[", "1", ",", "{", "\"", "b", "\"",
            ":", "\"", "c", "\"", "}", "]", ",", "\"", "d", "\"", ":", "2",
            "}">>),
      Str(<<"{", "\"", "-", "1", "\"", ":", "[", "0", "]", "}">>) }

\* new JsonPathSelector(selector)
Construct ==
    /\ route = "new"
    /\ selector' = JsonPathSelector_constructor(selectorExpression)
    /\ route' = "paths"
    /\ UNCHANGED <<parserVars, serializerVars, deserializerVars, detector,
                   selectorExpression, selectorRead, splitVars>>

SelectingInit ==
    /\ ParserInit
    /\ StreamsInit
    /\ alphabet = {}
    /\ rest \in SelectingDocuments
    /\ route = "new"
    /\ value = Undefined
    /\ space = Undefined
    /\ selectorExpression \in Selectors \cup MalformedSelectors
    /\ chunks = <<>>

SelectingNext ==
    \/ Construct
    \/ /\ route = "paths"
       /\ selector.err = NoError
       /\ \/ WriteDocument
          \/ Close
          \/ Detect
          \/ Select

Selecting == SelectingInit /\ [][SelectingNext]_vars

(***************************************************************************)
(* Children: the text of a value is written to                             *)
(* parseJsonStreamWithPaths(selector), a JsonParser piped through a       *)
(* JsonPathDetector and a JsonPathSelector for the children of what       *)
(* selector matches to a JsonDeserializer; the ValueExtractor of          *)
(* parseJsonStream reads what the deserializer enqueues                    *)
(***************************************************************************)
\* the values whose text is written
ChildValues ==
    { JObject(<<Entry(Str(<<"a">>), JArray(<<JNum(1, 0), JBool(TRUE)>>)),
                Entry(Str(<<"b">>),
                      JObject(<<Entry(Str(<<"c">>), JStr(Str(<<"d">>)))>>))>>),
      JArray(<<JNum(1, 0), JArray(<<JNum(2, 0)>>), JStr(Str(<<"d">>))>>),
      JArray(<<JArray(<<>>), JObject(<<Entry(Str(<<"a">>), JNull)>>)>>),
      JArray(<<JObject(<<>>), JNum(1, 0)>>),
      JObject(<<Entry(Str(<<"a">>), JObject(<<>>))>>),
      JObject(<<Entry(Str(<<"a">>), JNum(1, 0)),
                Entry(Str(<<"b">>), JArray(<<JStr(<<>>)>>))>>),
      JArray(<<>>),
      JObject(<<>>) }

\* the space the text is indented with
ChildSpaces == {Undefined, JNum(1, 0)}

\* the selectors given to parseJsonStreamWithPaths
ChildSelectors ==
    { JArray(<<>>),
      JArray(<<JStr(Str(<<"a">>))>>),
      JArray(<<Undefined>>),
      JArray(<<JArray(<<JStr(Str(<<"b">>)), JNum(1, 0)>>)>>) }

\* ValueExtractor.transform for the next value of the deserializer
Extract ==
    /\ Len(extracted) < Len(deserializer.out)
    /\ extracted' =
           Append(extracted,
                  ValueExtractor_transform(
                      deserializer.out[Len(extracted) + 1]))
    /\ UNCHANGED <<parserVars, route, serializerVars, deserializerVars,
                   pathVars, chunks, splitter, nested, streamSplitter,
                   branches>>

ChildrenInit ==
    /\ ParserInit
    /\ StreamsInit
    /\ alphabet = {}
    /\ value \in ChildValues
    /\ space \in ChildSpaces
    /\ rest = StringifiedText(serializeJson(value, space, <<>>))
    /\ route = "children"
    /\ selectorExpression \in {childrenOf(expression) :
                                  expression \in ChildSelectors}
    /\ chunks = <<>>

ChildrenNext ==
    \/ WriteDocument
    \/ Close
    \/ Detect
    \/ Select
    \/ Deserialize
    \/ Extract

Children == ChildrenInit /\ [][ChildrenNext]_vars

(***************************************************************************)
(* KeyChunks: the text of an object is written in chunks to a JsonParser that  *)
(* is piped through a JsonPathDetector to a JsonDeserializer               *)
(***************************************************************************)
\* objects with keys of several characters, one with an escape
KeyValues ==
    { JObject(<<Entry(Str(<<"a", "b">>),
                      JObject(<<Entry(Str(<<"c", "d">>), JNum(1, 0))>>)),
                Entry(Str(<<"e">>), JNum(2, 0))>>),
      JObject(<<Entry(Str(<<"a", "\n", "b">>), JNum(0, 0)),
                Entry(Str(<<"a">>), JNum(1, 0))>>) }

KeyChunksInit ==
    /\ ParserInit
    /\ StreamsInit
    /\ alphabet = {}
    /\ value \in KeyValues
    /\ space = Undefined
    /\ rest = StringifiedText(serializeJson(value, space, <<>>))
    /\ route = "keys"
    /\ selectorExpression = JArray(<<>>)
    /\ chunks = <<>>

KeyChunksNext ==
    \/ \E chunk \in NextChunks : Write(chunk)
    \/ Close
    \/ Detect
    \/ Deserialize

KeyChunks == KeyChunksInit /\ [][KeyChunksNext]_vars

(***************************************************************************)
(* Split: the chunks a JsonPathSelector has enqueued for a document are   *)
(* written to a JsonPathStreamSplitter, whose nested streams are read as  *)
(* they are enqueued                                                       *)
(***************************************************************************)
\* readable.pipeThrough(new JsonPathDetector()), from the i-th of the
\* chunks of a parser
RECURSIVE pipeThroughDetector(_, _, _)
pipeThroughDetector(t, tokens, i) ==
    IF i > Len(tokens) THEN t
    ELSE CHOOSE end \in
             { pipeThroughDetector(next, tokens, i + 1) :
                 next \in {JsonPathDetector_transform(t, tokens[i])} } : TRUE

\* readable.pipeThrough(new JsonPathSelector(expression))
RECURSIVE pipeThroughSelector(_, _, _, _)
pipeThroughSelector(s, expression, tokens, i) ==
    IF i > Len(tokens) THEN s
    ELSE CHOOSE end \in
             { pipeThroughSelector(next, expression, tokens, i + 1) :
                 next \in {JsonPathSelector_transform(s, expression,
                                                      tokens[i])} } : TRUE

\* what the JsonPathSelector enqueues when text is written to the parser
SelectedChunks(text, expression) ==
    CHOOSE selected \in
        { pipeThroughSelector(NewSelector, expression, t.out, 1).out :
            t \in { pipeThroughDetector(NewDetector, q.out, 1) :
                      q \in {transform(NewParser, text, 0)} } } : TRUE

\* the values whose text is written
SplitValues ==
    { JObject(<<Entry(Str(<<"a">>), JArray(<<JNum(1, 0), JBool(TRUE)>>)),
                Entry(Str(<<"b">>),
                      JObject(<<Entry(Str(<<"c">>), JStr(Str(<<"d">>)))>>))>>),
      JArray(<<JNum(1, 0), JArray(<<JNum(2, 0)>>), JStr(Str(<<"d">>))>>),
      JArray(<<JArray(<<>>), JObject(<<Entry(Str(<<"a">>), JNull)>>)>>),
      JObject(<<Entry(Str(<<"a">>), JNum(1, 0)),
                Entry(Str(<<"b">>), JArray(<<JStr(<<>>)>>))>>),
      JArray(<<>>) }

\* the texts that are written as they are
SplitDocuments ==
    { Str(<<"[", " ", "]">>),
      Str(<<"{", "\"", "a", "\"", ":", "1", ",", "\"", "a", "\"", ":", "2",
            "}">>) }

SplitTexts ==
    { StringifiedText(serializeJson(v, s, <<>>)) :
        v \in SplitValues, s \in ChildSpaces } \cup SplitDocuments

\* the selectors of the JsonPathSelector
SplitSelectors ==
    { JArray(<<>>),
      JArray(<<Undefined>>),
      JArray(<<JStr(Str(<<"a">>))>>),
      JArray(<<JArray(<<JStr(Str(<<"b">>)), JNum(1, 0)>>)>>),
      JArray(<<Undefined, Undefined>>),
      childrenOf(JArray(<<JStr(Str(<<"a">>))>>)) }

thisSplitter == [splitter |-> splitter, nested |-> nested]

\* JsonPathStreamSplitter.transform for the next chunk
SplitterTransform ==
    /\ ~splitter.flushed
    /\ splitter.read < Len(chunks)
    /\ \E w \in {JsonPathStreamSplitter_transform(
                     thisSplitter, chunks[splitter.read + 1])} :
          /\ splitter' = [w.splitter EXCEPT !.read = @ + 1]
          /\ nested' = w.nested
    /\ UNCHANGED <<parserVars, route, serializerVars, deserializerVars,
                   pathVars, extracted, chunks, streamSplitter, branches>>

\* JsonPathStreamSplitter.flush, when the writable side is closed
SplitterFlush ==
    /\ ~splitter.flushed
    /\ splitter.read = Len(chunks)
    /\ \E w \in {JsonPathStreamSplitter_flush(thisSplitter)} :
          /\ splitter' = w.splitter
          /\ nested' = w.nested
    /\ UNCHANGED <<parserVars, route, serializerVars, deserializerVars,
                   pathVars, extracted, chunks, streamSplitter, branches>>

\* reader.read() on a nested stream that was enqueued, when a chunk or the
\* end of the stream is there to be read
NestedRead(stream) ==
    /\ nested[stream].state = "readable"
    /\ nested[stream].queue # <<>> \/ nested[stream].closing
    /\ nested' = [nested EXCEPT ![stream] = readerRead(@)]
    /\ UNCHANGED <<parserVars, route, serializerVars, deserializerVars,
                   pathVars, extracted, chunks, splitter, streamSplitter,
                   branches>>

SplitRead == \E k \in DOMAIN splitter.out : NestedRead(splitter.out[k])

SplitInit ==
    /\ ParserInit
    /\ StreamsInit
    /\ alphabet = {}
    /\ rest = <<>>
    /\ route = "split"
    /\ value = Undefined
    /\ space = Undefined
    /\ selectorExpression \in SplitSelectors
    /\ \E text \in SplitTexts :
          chunks = SelectedChunks(text, selectorExpression)

SplitNext ==
    \/ SplitterTransform
    \/ SplitterFlush
    \/ SplitRead

Split == SplitInit /\ [][SplitNext]_vars

(***************************************************************************)
(* Tee: the chunks a JsonPathSelector has enqueued are written to a       *)
(* StreamSplitter with the options of JsonPathStreamSplitter.  Its        *)
(* readable side is teed: mainInput is piped to main, whose readable side *)
(* the consumer reads the nested streams from, and nestedInput is piped   *)
(* to the sink that writes the chunks to the nested streams.  A tee       *)
(* queues for each branch what the other one has read, so either branch   *)
(* may be ahead of the other.                                              *)
(***************************************************************************)
\* the greatest number of nested streams of an input
MaxNested == 3

TeeInputs ==
    { SelectedChunks(StringifiedText(serializeJson(
          JArray(<<JNum(1, 0), JArray(<<JNum(2, 0)>>), JStr(Str(<<"d">>))>>),
          Undefined, <<>>)), JArray(<<Undefined>>)),
      SelectedChunks(StringifiedText(serializeJson(
          JObject(<<Entry(Str(<<"a">>), JNum(1, 0)),
                    Entry(Str(<<"b">>), JArray(<<JStr(<<>>)>>))>>),
          Undefined, <<>>)), JArray(<<Undefined>>)),
      SelectedChunks(StringifiedText(serializeJson(
          JArray(<<JBool(TRUE), JNull>>), JNum(1, 0), <<>>)),
          JArray(<<Undefined>>)),
      SelectedChunks(StringifiedText(serializeJson(
          JArray(<<>>), Undefined, <<>>)), JArray(<<>>)) }

thisStreamSplitter == [streamSplitter |-> streamSplitter, nested |-> nested]

\* the chunks a stream of the pipe holds that the next one has not taken:
\* a TransformStream without strategies holds the one chunk it is writing
Upstream == 1

\* the chunks a branch of the tee holds that its destination has not
\* handled: one in the queue of the branch, one the destination is writing
Buffered == 2

\* writer.write(chunk) on the writable side of the splitter is done: the
\* chunk has passed the TransformStream of the splitter
WriteInput ==
    /\ branches.aborted = <<>>
    /\ branches.written < Len(chunks)
    /\ branches.written - branches.pulled < Upstream
    /\ branches' = [branches EXCEPT !.written = @ + 1]
    /\ UNCHANGED <<parserVars, route, serializerVars, deserializerVars,
                   pathVars, extracted, chunks, splitter, nested,
                   streamSplitter>>

\* the tee reads the next chunk and enqueues it on both branches, when one
\* of the branches has room
Pull ==
    /\ branches.aborted = <<>>
    /\ branches.pulled < branches.written
    /\ \/ branches.pulled - branches.main < Buffered
       \/ branches.pulled - branches.nested < Buffered
    /\ branches' = [branches EXCEPT !.pulled = @ + 1]
    /\ UNCHANGED <<parserVars, route, serializerVars, deserializerVars,
                   pathVars, extracted, chunks, splitter, nested,
                   streamSplitter>>

\* main: transformMain for the next chunk of mainInput.  The readable side
\* of main queues nothing, so a chunk is transformed while a read of the
\* consumer is pending.
TransformMain ==
    /\ branches.aborted = <<>>
    /\ branches.main < branches.pulled
    /\ branches.taken > Len(streamSplitter.out)
    /\ \E w \in {transformMain(thisStreamSplitter, branches.main,
                               chunks[branches.main + 1])} :
          /\ streamSplitter' = w.streamSplitter
          /\ nested' = w.nested
    /\ branches' = [branches EXCEPT !.main = @ + 1]
    /\ UNCHANGED <<parserVars, route, serializerVars, deserializerVars,
                   pathVars, extracted, chunks, splitter>>

\* mainInput.pipeTo(main.writable) closes main at the end of mainInput
MainClose ==
    /\ branches.aborted = <<>>
    /\ branches.main = Len(chunks)
    /\ ~branches.mainClosed
    /\ branches' = [branches EXCEPT !.mainClosed = TRUE]
    /\ UNCHANGED <<parserVars, route, serializerVars, deserializerVars,
                   pathVars, extracted, chunks, splitter, nested,
                   streamSplitter>>

\* reader.read() of the consumer on the splitter, when its last read has
\* given a nested stream
ReadMain ==
    /\ branches.mainErrored = <<>>
    /\ branches.taken = Len(streamSplitter.out)
    /\ branches' = [branches EXCEPT !.taken = @ + 1]
    /\ UNCHANGED <<parserVars, route, serializerVars, deserializerVars,
                   pathVars, extracted, chunks, splitter, nested,
                   streamSplitter>>

\* handleNestedChunk for the next chunk of nestedInput, up to its first
\* await: that of the close of the current writer, or that of the write
HandleNestedChunk ==
    /\ branches.aborted = <<>>
    /\ branches.pc = "idle"
    /\ branches.nested < branches.pulled
    /\ \E handled \in {handleChunk(thisStreamSplitter, branches.nested,
                                   chunks[branches.nested + 1])} :
          IF /\ branches.nested \in DOMAIN handled.streamSplitter.nestedWriters
             /\ handled.streamSplitter.currentWriter # <<>>
          THEN \E w \in {closeCurrentWriter(handled, branches.nested)} :
                  /\ streamSplitter' = w.streamSplitter
                  /\ nested' = w.nested
                  /\ branches' = [branches EXCEPT !.pc = "closing"]
          ELSE \E w \in {writeToCurrentWriter(handled, branches.nested,
                                              chunks[branches.nested + 1])} :
                  /\ streamSplitter' = w.streamSplitter
                  /\ nested' = w.nested
                  /\ branches' = [branches EXCEPT !.pc = "writing"]
    /\ UNCHANGED <<parserVars, route, serializerVars, deserializerVars,
                   pathVars, extracted, chunks, splitter>>

\* handleNestedChunk after await this.currentWriter.close()
AfterClose ==
    /\ branches.pc = "closing"
    /\ \E w \in {writeToCurrentWriter(thisStreamSplitter, branches.nested,
                                      chunks[branches.nested + 1])} :
          /\ streamSplitter' = w.streamSplitter
          /\ nested' = w.nested
    /\ branches' = [branches EXCEPT !.pc = "writing"]
    /\ UNCHANGED <<parserVars, route, serializerVars, deserializerVars,
                   pathVars, extracted, chunks, splitter>>

\* handleNestedChunk after await this.currentWriter.write(chunk): the sink
\* takes the next chunk when the promise of the write is settled
AfterWrite ==
    /\ branches.pc = "writing"
    /\ settled(thisStreamSplitter)
    /\ branches' = [branches EXCEPT !.pc = "idle", !.nested = @ + 1]
    /\ UNCHANGED <<parserVars, route, serializerVars, deserializerVars,
                   pathVars, extracted, chunks, splitter, nested,
                   streamSplitter>>

\* handleNestedClose at the end of nestedInput.  The close of the writer
\* of a cancelled nested stream is rejected, and with it the promise of
\* nestedInput.pipeTo(nested), which is caught.
HandleNestedClose ==
    /\ branches.aborted = <<>>
    /\ branches.pc = "idle"
    /\ branches.nested = Len(chunks)
    /\ ~branches.done
    /\ nested' = handleNestedClose(thisStreamSplitter).nested
    /\ branches' =
           [branches EXCEPT
               !.done = TRUE,
               !.rejected =
                   \E k \in DOMAIN streamSplitter.currentWriter :
                       nested[streamSplitter.currentWriter[k]].state
                           = "cancelled"]
    /\ UNCHANGED <<parserVars, route, serializerVars, deserializerVars,
                   pathVars, extracted, chunks, splitter, streamSplitter>>

\* the nested streams the consumer has read from the splitter
Taken == {streamSplitter.out[k] : k \in DOMAIN streamSplitter.out}

\* reader.read() on a nested stream the consumer has, when a chunk or the
\* end of the stream is there to be read
ReadNested(stream) ==
    /\ stream \in Taken
    /\ NestedRead(stream)

\* subStream.cancel() on a nested stream the consumer has
CancelNested(stream) ==
    /\ stream \in Taken
    /\ nested[stream].state = "readable"
    /\ nested' = [nested EXCEPT ![stream] = readableCancel(@)]
    /\ UNCHANGED <<parserVars, route, serializerVars, deserializerVars,
                   pathVars, extracted, chunks, splitter, streamSplitter,
                   branches>>

TeeInit ==
    /\ ParserInit
    /\ StreamsInit
    /\ alphabet = {}
    /\ rest = <<>>
    /\ route = "tee"
    /\ value = Undefined
    /\ space = Undefined
    /\ selectorExpression = JArray(<<Undefined>>)
    /\ chunks \in TeeInputs

TeeRead == \E stream \in 1..MaxNested : ReadNested(stream)

TeeCancel == \E stream \in 1..MaxNested : CancelNested(stream)

TeeNext ==
    \/ WriteInput
    \/ Pull
    \/ TransformMain
    \/ MainClose
    \/ ReadMain
    \/ HandleNestedChunk
    \/ AfterClose
    \/ AfterWrite
    \/ HandleNestedClose
    \/ TeeRead
    \/ TeeCancel

Tee == TeeInit /\ [][TeeNext]_vars

\* Every pipe runs while it can, and the consumer reads the splitter to
\* its end and every nested stream it does not cancel.
TeeFairness ==
    /\ WF_vars(WriteInput)
    /\ WF_vars(Pull)
    /\ WF_vars(TransformMain)
    /\ WF_vars(MainClose)
    /\ WF_vars(ReadMain)
    /\ WF_vars(HandleNestedChunk)
    /\ WF_vars(AfterClose)
    /\ WF_vars(AfterWrite)
    /\ WF_vars(HandleNestedClose)

TeeFair ==
    /\ Tee
    /\ TeeFairness
    /\ \A stream \in 1..MaxNested : WF_vars(ReadNested(stream))

\* The same, with a consumer that reads every nested stream but the first
\* one, which it may leave alone.
TeeFirstIdle ==
    /\ Tee
    /\ TeeFairness
    /\ \A stream \in 2..MaxNested : WF_vars(ReadNested(stream))

(***************************************************************************)
(* TeeAbort: the writable side of the StreamSplitter may be aborted       *)
(* before its input has ended.  The readable side is errored with the     *)
(* reason and with it both branches of the tee, whose queues are lost:    *)
(* each pipe aborts its destination once the write it is in is done.      *)
(***************************************************************************)
\* the reasons of an abort
Reasons == {"test", "other"}

\* writer.abort(reason) on the writable side of the splitter
Abort ==
    /\ branches.aborted = <<>>
    /\ ~branches.mainClosed
    /\ ~branches.done
    /\ \E reason \in Reasons :
          branches' = [branches EXCEPT !.aborted = <<reason>>]
    /\ UNCHANGED <<parserVars, route, serializerVars, deserializerVars,
                   pathVars, extracted, chunks, splitter, nested,
                   streamSplitter>>

\* mainInput.pipeTo(main.writable) aborts main, whose readable side is
\* errored with the reason
MainAbort ==
    /\ branches.aborted # <<>>
    /\ branches.mainErrored = <<>>
    /\ branches' = [branches EXCEPT !.mainErrored = branches.aborted]
    /\ UNCHANGED <<parserVars, route, serializerVars, deserializerVars,
                   pathVars, extracted, chunks, splitter, nested,
                   streamSplitter>>

\* nestedInput.pipeTo(nested) aborts the sink when handleNestedChunk is
\* not running: handleNestedAbort
HandleNestedAbort ==
    /\ branches.aborted # <<>>
    /\ branches.pc = "idle"
    /\ ~branches.nestedAborted
    /\ nested' = handleNestedAbort(thisStreamSplitter,
                                   branches.aborted[1]).nested
    /\ branches' = [branches EXCEPT !.nestedAborted = TRUE]
    /\ UNCHANGED <<parserVars, route, serializerVars, deserializerVars,
                   pathVars, extracted, chunks, splitter, streamSplitter>>

TeeAbortNext ==
    \/ TeeNext
    \/ Abort
    \/ MainAbort
    \/ HandleNestedAbort

TeeAbort ==
    /\ TeeInit
    /\ [][TeeAbortNext]_vars
    /\ TeeFairness
    /\ WF_vars(MainAbort)
    /\ WF_vars(HandleNestedAbort)
    /\ \A stream \in 1..MaxNested : WF_vars(ReadNested(stream))

(***************************************************************************)
(* RFC 8259, as a recursive-descent recognizer.  Each recognizer reads     *)
(* text from index i and gives the index after what it recognized, or     *)
(* Rfc.invalid, or Rfc.incomplete when text ends where more is required. *)
(***************************************************************************)
\* the results that are no index
Rfc == [invalid |-> 0, incomplete |-> -1]

RfcWs == {32, 9, 10, 13}
RfcDigit(c) == c >= 48 /\ c <= 57
RfcHex(c) == RfcDigit(c) \/ (c >= 97 /\ c <= 102) \/ (c >= 65 /\ c <= 70)
RfcEscapes == {34, 92, 47, 98, 102, 110, 114, 116}

RECURSIVE RfcSkipWs(_, _)
RfcSkipWs(text, i) ==
    IF i <= Len(text) /\ text[i] \in RfcWs THEN RfcSkipWs(text, i + 1) ELSE i

RECURSIVE RfcSkipDigits(_, _)
RfcSkipDigits(text, i) ==
    IF i <= Len(text) /\ RfcDigit(text[i]) THEN RfcSkipDigits(text, i + 1) ELSE i

\* one or more digits from i
RfcDigits(text, i) ==
    IF i > Len(text) THEN Rfc.incomplete
    ELSE IF ~RfcDigit(text[i]) THEN Rfc.invalid
    ELSE RfcSkipDigits(text, i)

\* number = [ minus ] int [ frac ] [ exp ]
RfcNumber(text, i) ==
    LET i1 == IF text[i] = 45 THEN i + 1 ELSE i
        int == IF i1 > Len(text) THEN Rfc.incomplete
               ELSE IF text[i1] = 48 THEN i1 + 1
               ELSE RfcDigits(text, i1)
        frac == IF int <= 0 THEN int
                ELSE IF int <= Len(text) /\ text[int] = 46
                     THEN RfcDigits(text, int + 1)
                ELSE int
        exp == IF frac <= 0 THEN frac
               ELSE IF frac <= Len(text) /\ text[frac] \in {101, 69}
                    THEN IF frac + 1 <= Len(text) /\ text[frac + 1] \in {43, 45}
                         THEN RfcDigits(text, frac + 2)
                         ELSE RfcDigits(text, frac + 1)
               ELSE frac
    IN  exp

\* the k-th and later characters of word, from i
RECURSIVE RfcWord(_, _, _, _)
RfcWord(text, i, word, k) ==
    IF k > Len(word) THEN i
    ELSE IF i > Len(text) THEN Rfc.incomplete
    ELSE IF text[i] # word[k] THEN Rfc.invalid
    ELSE RfcWord(text, i + 1, word, k + 1)

\* the characters of a string after its opening quotation mark
RECURSIVE RfcChars(_, _)
RfcChars(text, i) ==
    IF i > Len(text) THEN Rfc.incomplete
    ELSE IF text[i] = 34 THEN i + 1
    ELSE IF text[i] = 92 THEN
        IF i + 1 > Len(text) THEN Rfc.incomplete
        ELSE IF text[i + 1] \in RfcEscapes THEN RfcChars(text, i + 2)
        ELSE IF text[i + 1] = 117 THEN
            IF \E k \in 2..5 : i + k <= Len(text) /\ ~RfcHex(text[i + k])
                   /\ \A j \in 2..(k - 1) : RfcHex(text[i + j])
            THEN Rfc.invalid
            ELSE IF i + 5 > Len(text) THEN Rfc.incomplete
            ELSE RfcChars(text, i + 6)
        ELSE Rfc.invalid
    ELSE IF text[i] < 32 THEN Rfc.invalid
    ELSE RfcChars(text, i + 1)

RECURSIVE RfcValue(_, _), RfcElements(_, _), RfcMembers(_, _)
RfcValue(text, i) ==
    IF i > Len(text) THEN Rfc.incomplete
    ELSE IF text[i] = 123 THEN
        LET j == RfcSkipWs(text, i + 1)
        IN  IF j > Len(text) THEN Rfc.incomplete
            ELSE IF text[j] = 125 THEN j + 1
            ELSE RfcMembers(text, j)
    ELSE IF text[i] = 91 THEN
        LET j == RfcSkipWs(text, i + 1)
        IN  IF j > Len(text) THEN Rfc.incomplete
            ELSE IF text[j] = 93 THEN j + 1
            ELSE RfcElements(text, j)
    ELSE IF text[i] = 34 THEN RfcChars(text, i + 1)
    ELSE IF text[i] = 45 \/ RfcDigit(text[i]) THEN RfcNumber(text, i)
    ELSE IF text[i] = 116 THEN RfcWord(text, i, <<116, 114, 117, 101>>, 1)
    ELSE IF text[i] = 102 THEN RfcWord(text, i, <<102, 97, 108, 115, 101>>, 1)
    ELSE IF text[i] = 110 THEN RfcWord(text, i, <<110, 117, 108, 108>>, 1)
    ELSE Rfc.invalid

\* value *( ws "," ws value ) ws "]"
RfcElements(text, i) ==
    LET v == RfcValue(text, i)
        j == RfcSkipWs(text, v)
    IN  IF v <= 0 THEN v
        ELSE IF j > Len(text) THEN Rfc.incomplete
        ELSE IF text[j] = 93 THEN j + 1
        ELSE IF text[j] = 44 THEN RfcElements(text, RfcSkipWs(text, j + 1))
        ELSE Rfc.invalid

\* string ws ":" ws value *( ws "," ws member ) ws "}"
RfcMembers(text, i) ==
    LET k == IF i > Len(text) THEN Rfc.incomplete
             ELSE IF text[i] # 34 THEN Rfc.invalid
             ELSE RfcChars(text, i + 1)
        c == RfcSkipWs(text, k)
        v == IF k <= 0 THEN k
             ELSE IF c > Len(text) THEN Rfc.incomplete
             ELSE IF text[c] # 58 THEN Rfc.invalid
             ELSE RfcValue(text, RfcSkipWs(text, c + 1))
        j == RfcSkipWs(text, v)
    IN  IF v <= 0 THEN v
        ELSE IF j > Len(text) THEN Rfc.incomplete
        ELSE IF text[j] = 125 THEN j + 1
        ELSE IF text[j] = 44 THEN RfcMembers(text, RfcSkipWs(text, j + 1))
        ELSE Rfc.invalid

\* JSON-text = ws value ws: "valid", "incomplete" (a proper prefix of a
\* JSON text, not one itself) or "invalid" (no prefix of any JSON text)
RfcText(text) ==
    LET v == RfcValue(text, RfcSkipWs(text, 1))
    IN  IF v = Rfc.invalid THEN "invalid"
        ELSE IF v = Rfc.incomplete THEN "incomplete"
        ELSE IF RfcSkipWs(text, v) > Len(text) THEN "valid"
        ELSE "invalid"

RfcNumberText(raw) == raw # <<>> /\ RfcNumber(raw, 1) = Len(raw) + 1

(***************************************************************************)
(* Well-formed token streams, as an acceptor of their prefixes.  open is   *)
(* the chain of open containers, outermost first, under a root entry; at   *)
(* is what may come next in each; str is the role of the open string.      *)
(***************************************************************************)
TokStart ==
    [open |-> << [kind |-> "root", at |-> "value"] >>, str |-> "none",
     ok |-> TRUE, values |-> 0, firstEnd |-> 0, read |-> 0]

ValueExpected(e) ==
    \/ e.kind = "root" /\ e.at = "value"
    \/ e.kind = "array" /\ e.at \in {"first", "after_comma"}
    \/ e.kind = "object" /\ e.at = "after_colon"

\* the acceptor after a value has ended in the innermost open container
ValueEnded(ts) ==
    LET e == Last(ts.open)
        root == e.kind = "root"
    IN  [ts EXCEPT
            !.open = SetLast(@, [e EXCEPT !.at = IF root THEN "done"
                                                 ELSE "after_value"]),
            !.values = IF root THEN @ + 1 ELSE @,
            !.firstEnd = IF root /\ ts.values = 0 THEN ts.read ELSE @]

TokStep(ts0, tok) ==
    LET ts == [ts0 EXCEPT !.read = @ + Len(tok.rawValue)]
        e == Last(ts.open)
        bad == [ts EXCEPT !.ok = FALSE]
    IN  IF ~ts.ok THEN ts
        ELSE IF ts.str # "none" THEN
            IF tok.type = "STRING_CHUNK" /\ tok.role = ts.str THEN ts
            ELSE IF tok.type = "STRING_END" /\ tok.role = ts.str THEN
                IF ts.str = "KEY"
                THEN [ts EXCEPT !.str = "none",
                                !.open = SetLast(@, [e EXCEPT !.at = "after_key"])]
                ELSE ValueEnded([ts EXCEPT !.str = "none"])
            ELSE bad
        ELSE IF tok.type = "WHITESPACE" THEN ts
        ELSE IF tok.type = "STRING_START" THEN
            IF tok.role = "KEY" THEN
                IF e.kind = "object" /\ e.at \in {"first", "after_comma"}
                THEN [ts EXCEPT !.str = "KEY"] ELSE bad
            ELSE IF ValueExpected(e) THEN [ts EXCEPT !.str = "VALUE"] ELSE bad
        ELSE IF tok.type \in {"NUMBER_VALUE", "BOOLEAN_VALUE", "NULL_VALUE"} THEN
            IF ValueExpected(e) THEN ValueEnded(ts) ELSE bad
        ELSE IF tok.type = "OBJECT_START" THEN
            IF ValueExpected(e)
            THEN [ts EXCEPT !.open = Append(@, [kind |-> "object", at |-> "first"])]
            ELSE bad
        ELSE IF tok.type = "ARRAY_START" THEN
            IF ValueExpected(e)
            THEN [ts EXCEPT !.open = Append(@, [kind |-> "array", at |-> "first"])]
            ELSE bad
        ELSE IF tok.type = "OBJECT_END" THEN
            IF e.kind = "object" /\ e.at \in {"first", "after_value"}
            THEN ValueEnded([ts EXCEPT !.open = Front(@)]) ELSE bad
        ELSE IF tok.type = "ARRAY_END" THEN
            IF e.kind = "array" /\ e.at \in {"first", "after_value"}
            THEN ValueEnded([ts EXCEPT !.open = Front(@)]) ELSE bad
        ELSE IF tok.type = "COLON" THEN
            IF e.kind = "object" /\ e.at = "after_key"
            THEN [ts EXCEPT !.open = SetLast(@, [e EXCEPT !.at = "after_colon"])]
            ELSE bad
        ELSE IF tok.type = "COMMA" THEN
            IF e.kind \in {"object", "array"} /\ e.at = "after_value"
            THEN [ts EXCEPT !.open = SetLast(@, [e EXCEPT !.at = "after_comma"])]
            ELSE bad
        ELSE bad

RECURSIVE TokRun(_, _, _)
TokRun(ts, tokens, i) ==
    IF i > Len(tokens) THEN ts ELSE TokRun(TokStep(ts, tokens[i]), tokens, i + 1)

\* the acceptor after the tokens of a single document
Tok(tokens) == TokRun(TokStart, tokens, 1)

AllWhitespace(text) == \A i \in DOMAIN text : text[i] \in RfcWs

HasType(tokens, type) == \E i \in DOMAIN tokens : tokens[i].type = type

(***************************************************************************)
(* Claims about the parser                                                 *)
(***************************************************************************)

\* C1: for every valid JSON text and every way of splitting it into chunks,
\* the parser completes and the rawValues of the tokens it emitted, put
\* together in order as JsonStringifier does, are the text, character for
\* character.
C1_StringifiedTokensAreTheText ==
    /\ phase = "closed" => StringifiedText(output) = input
    /\ failure.name = "PrematureEndError" => RfcText(input) # "valid"

\* a text with an escape and whitespace, written in three chunks, parsed
C1_Witness ==
    /\ phase = "closed"
    /\ chunkCount = 3
    /\ HasType(output, "WHITESPACE")
    /\ \E i \in DOMAIN output :
          output[i].type = "STRING_CHUNK" /\ output[i].value # output[i].rawValue
    /\ RfcText(input) = "valid"

\* the StringChunks of one string merged into one, and adjacent Whitespace
\* tokens merged into one
RECURSIVE Merged(_)
Merged(tokens) ==
    IF Len(tokens) < 2 THEN tokens
    ELSE LET a == tokens[1]
             b == tokens[2]
             after == SubSeq(tokens, 3, Len(tokens))
         IN  IF a.type = "STRING_CHUNK" /\ b.type = "STRING_CHUNK"
             THEN Merged(<<stringChunk(a.value \o b.value, a.role,
                                       a.rawValue \o b.rawValue)>> \o after)
             ELSE IF a.type = "WHITESPACE" /\ b.type = "WHITESPACE"
             THEN Merged(<<whitespace(a.rawValue \o b.rawValue)>> \o after)
             ELSE <<a>> \o Merged(Tail(tokens))

\* the tokens of text parsed as one chunk
ParsedWhole(text) == flush(transform(NewParser, text, 0)).out

\* C2: parsing a text in chunks yields, once the StringChunks of each
\* string and adjacent Whitespace tokens are merged, the tokens of parsing
\* it as one chunk.
C2_FragmentationInvariant ==
    phase = "closed" => Merged(output) = Merged(ParsedWhole(input))

\* C3: the parser completes exactly on the texts of RFC 8259, and every
\* NumberValue it emits has the raw text of an RFC 8259 number.
C3_AcceptsExactlyRfc8259 ==
    /\ phase = "closed" => RfcText(input) = "valid"
    /\ failure.name = "PrematureEndError" => RfcText(input) # "valid"
    /\ \A i \in DOMAIN output :
          output[i].type = "NUMBER_VALUE" => RfcNumberText(output[i].rawValue)

\* C4: the parser fails with UnexpectedCharError at the first character
\* after which the input is no prefix of a JSON text, reporting the
\* character and its offset in the stream, and with PrematureEndError
\* when the input ends as a proper prefix of a JSON text.
C4_FailsAtFirstBadCharacter ==
    /\ failure.name = "UnexpectedCharError" =>
          /\ failure.char = Last(input)
          /\ failure.position = Len(input) - 1
          /\ RfcText(input) = "invalid"
          /\ RfcText(Front(input)) # "invalid"
    /\ phase # "errored" => RfcText(input) # "invalid"
    /\ failure.name = "PrematureEndError" => RfcText(input) = "incomplete"
    /\ phase = "closed" => RfcText(input) = "valid"

\* C5: exactly one top-level value: an input of whitespace only fails with
\* PrematureEndError when it ends, the first character after the first
\* complete top-level value that is no whitespace fails with
\* UnexpectedCharError, and whitespace before and after the value does not.
C5_ExactlyOneTopLevelValue ==
    LET t == Tok(output)
    IN  /\ AllWhitespace(input) /\ phase # "writable" =>
              failure.name = "PrematureEndError"
        /\ phase = "closed" => t.values = 1
        /\ t.values >= 1 =>
              \A i \in (t.firstEnd + 1)..Len(input) :
                  input[i] \notin RfcWs =>
                      /\ i = Len(input)
                      /\ failure.name = "UnexpectedCharError"
                      /\ failure.char = input[i]
        /\ failure.name = "UnexpectedCharError"
              /\ (t.values >= 1 \/ AllWhitespace(Front(input))) =>
              failure.char \notin RfcWs
        /\ failure.name = "PrematureEndError" => t.values = 0

\* a second top-level value, after whitespace, has failed the parser
C5_Witness ==
    /\ failure.name = "UnexpectedCharError"
    /\ Tok(output).values = 1
    /\ HasType(output, "WHITESPACE")
    /\ Tok(output).firstEnd < Len(input) - 1

\* C6: whatever the input, the tokens emitted so far are a prefix of a
\* well-formed token stream: strings are StringStart, StringChunks and
\* StringEnd of one role with nothing between, a Key string stands where
\* an object key may and is followed, after whitespace, by a Colon, and
\* an ObjectEnd or ArrayEnd closes the innermost open container, of its
\* kind.
C6_TokensAreWellFormedPrefix == Tok(output).ok

\* an invalid object has failed the parser after its key was emitted
C6_Witness ==
    /\ phase = "errored"
    /\ \E i \in DOMAIN output :
          output[i].type = "STRING_END" /\ output[i].role = "KEY"
    /\ HasType(output, "OBJECT_START")
    /\ failure.char # Ord[":"]

(***************************************************************************)
(* Claims about the round trip                                             *)
(***************************************************************************)
\* structural equality of two values: the same type, equal items in the
\* same order, the same keys with equal values in any order
RECURSIVE StructurallyEqual(_, _)
StructurallyEqual(a, b) ==
    IF a.t # b.t THEN FALSE
    ELSE IF a.t = "array"
    THEN /\ Len(a.items) = Len(b.items)
         /\ \A i \in DOMAIN a.items : StructurallyEqual(a.items[i], b.items[i])
    ELSE IF a.t = "object"
    THEN /\ Len(a.entries) = Len(b.entries)
         /\ \A i \in DOMAIN a.entries : \E j \in DOMAIN b.entries :
               /\ a.entries[i].key = b.entries[j].key
               /\ StructurallyEqual(a.entries[i].value, b.entries[j].value)
    ELSE a = b

\* every stream has read all its source has enqueued, and closed
RoundTripComplete ==
    /\ serialized # <<>>
    /\ route = "text" => phase = "closed"
    /\ deserializerRead = Len(DeserializerSource)

Unstated == <<Undefined>>

PathsStart ==
    [open |-> << [kind |-> "root", own |-> <<>>, item |-> Undefined,
                  index |-> 0, inItem |-> TRUE] >>,
     paths |-> <<>>]

\* the path of the values of the innermost open container e
ItemPath(e) == IF e.kind = "root" THEN e.own ELSE Append(e.own, e.item)

PathsStep(r, tok) ==
    LET e == Last(r.open)
        is(path) == [r EXCEPT !.paths = Append(@, path)]
        within == IF e.inItem /\ e.kind # "root" THEN ItemPath(e) ELSE Unstated
    IN  IF tok.type \in {"OBJECT_START", "ARRAY_START"}
        THEN [open |-> Append(r.open,
                  [kind |-> IF tok.type = "OBJECT_START" THEN "object"
                            ELSE "array",
                   own |-> ItemPath(e),
                   item |-> IF tok.type = "OBJECT_START" THEN JStr(<<>>)
                            ELSE JNum(0, 0),
                   index |-> 0,
                   inItem |-> tok.type = "ARRAY_START"]),
              paths |-> Append(r.paths,
                               IF e.inItem THEN ItemPath(e) ELSE Unstated)]
        ELSE IF tok.type \in {"OBJECT_END", "ARRAY_END"}
        THEN IF e.kind = "root" THEN is(Unstated)
             ELSE [open |-> Front(r.open), paths |-> Append(r.paths, e.own)]
        ELSE IF e.kind = "object" /\ "role" \in DOMAIN tok /\ tok.role = "KEY"
        THEN [open |-> SetLast(r.open,
                  [e EXCEPT !.item = IF tok.type = "STRING_CHUNK"
                                     THEN JStr(@.s \o tok.value) ELSE @]),
              paths |-> Append(r.paths, e.own)]
        ELSE IF e.kind = "object" /\ tok.type = "COLON"
        THEN [open |-> SetLast(r.open, [e EXCEPT !.inItem = TRUE]),
              paths |-> Append(r.paths, e.own)]
        ELSE IF e.kind = "object" /\ tok.type = "COMMA"
        THEN [open |-> SetLast(r.open, [e EXCEPT !.inItem = FALSE,
                                                 !.item = JStr(<<>>)]),
              paths |-> Append(r.paths, e.own)]
        ELSE IF e.kind = "array" /\ tok.type = "COMMA"
        THEN [open |-> SetLast(r.open,
                  [e EXCEPT !.index = @ + 1,
                            !.item = Normalize(e.index + 1, 0)]),
              paths |-> Append(r.paths, e.own)]
        ELSE is(within)

RECURSIVE PathsRun(_, _, _)
PathsRun(r, tokens, i) ==
    IF i > Len(tokens) THEN r
    ELSE PathsRun(PathsStep(r, tokens[i]), tokens, i + 1)

\* the paths stated for the chunks of tokens
StatedPaths(tokens) == PathsRun(PathsStart, tokens, 1).paths

\* the indexes of the ObjectStart and ArrayStart chunks among the first n
\* of tokens that no ObjectEnd or ArrayEnd among them has closed
RECURSIVE OpenStarts(_, _)
OpenStarts(tokens, n) ==
    IF n = 0 THEN <<>>
    ELSE IF tokens[n].type \in {"OBJECT_START", "ARRAY_START"}
         THEN Append(OpenStarts(tokens, n - 1), n)
    ELSE IF tokens[n].type \in {"OBJECT_END", "ARRAY_END"}
         THEN Pop(OpenStarts(tokens, n - 1))
    ELSE OpenStarts(tokens, n - 1)

\* chunk j of tokens is the ObjectEnd or ArrayEnd of the container that
\* chunk i starts
Closes(tokens, j, i) ==
    /\ tokens[j].type \in {"OBJECT_END", "ARRAY_END"}
    /\ OpenStarts(tokens, j - 1) # <<>>
    /\ Last(OpenStarts(tokens, j - 1)) = i

(***************************************************************************)
(* Claims about the path detector and the path selector                   *)
(***************************************************************************)
\* C8: every chunk the detector has enqueued for which the paths of
\* JsonPath state one carries it: in an object the chunks between a Colon
\* and the next Comma or ObjectEnd carry the object's path and the key,
\* the chunks of the key, Colon, Comma, ObjectStart and ObjectEnd the
\* object's own path; in an array the chunks between its start or a Comma
\* and the next Comma or ArrayEnd carry the array's path and the index,
\* Comma, ArrayStart and ArrayEnd the array's own path.
C8_ChunksCarryTheStatedPath ==
    \A i \in DOMAIN detector.out :
        \/ StatedPaths(detector.out)[i] = Unstated
        \/ detector.out[i].path = StatedPaths(detector.out)[i]

\* C9: an ObjectEnd or ArrayEnd chunk carries the path of the ObjectStart
\* or ArrayStart chunk of its container, whatever the container holds and
\* however deep it is nested.
C9_EndCarriesThePathOfItsStart ==
    \A j \in DOMAIN detector.out : \A i \in 1..(j - 1) :
        Closes(detector.out, j, i) =>
            detector.out[j].path = detector.out[i].path

\* whether the selector forwards each of tokens, by the rule of C10: prefix
\* is <<>> or <<the matched path prefix>>
RECURSIVE Forwards(_, _, _, _)
Forwards(tokens, expression, i, prefix) ==
    IF i > Len(tokens) THEN <<>>
    ELSE LET extends == /\ prefix # <<>>
                        /\ arrayStartsWith(tokens[i].path, prefix[1])
             matched == matchesJsonPathSelector(tokens[i].path, expression)
         IN  <<extends \/ matched>>
             \o Forwards(tokens, expression, i + 1,
                         IF extends THEN prefix
                         ELSE IF matched THEN <<tokens[i].path>>
                         ELSE <<>>)

\* the chunks of the detector that the selector has read
SelectorInput == SubSeq(detector.out, 1, selectorRead)

\* the elements of s that keep marks
RECURSIVE Kept(_, _)
Kept(s, keep) ==
    IF s = <<>> THEN <<>>
    ELSE (IF keep[1] THEN <<s[1]>> ELSE <<>>) \o Kept(Tail(s), Tail(keep))

\* C10: the selector has forwarded, unchanged and in their order, exactly
\* the chunks it has read whose path the selector matches or that extend
\* the matched path prefix, a prefix that a match sets and the first chunk
\* that does not extend it clears; and with the ObjectStart or ArrayStart
\* of a container it has forwarded the ObjectEnd or ArrayEnd of that
\* container.
C10_SelectorForwardsSubtrees ==
    LET forwards == Forwards(SelectorInput, selectorExpression, 1, <<>>)
    IN  /\ selector.out = Kept(SelectorInput, forwards)
        /\ \A j \in DOMAIN SelectorInput : \A i \in 1..(j - 1) :
              Closes(SelectorInput, j, i) /\ forwards[i] => forwards[j]

(***************************************************************************)
(* Selectors as the documentation of JsonPathSelectorExpression states    *)
(* them, and the children of what a selector matches in a value            *)
(***************************************************************************)
\* an entry of a pattern matches a key or index
EntryMatches(entry, key) ==
    \/ entry = Undefined
    \/ entry = key
    \/ entry.t = "array" /\ key \in {entry.items[j] : j \in DOMAIN entry.items}

\* the entries of a pattern match a path, one entry for each key or index
RECURSIVE PatternMatches(_, _)
PatternMatches(path, entries) ==
    IF entries = <<>> THEN path = <<>>
    ELSE /\ path # <<>>
         /\ EntryMatches(Head(entries), Head(path))
         /\ PatternMatches(Tail(path), Tail(entries))

\* what the predicate of parseJsonStream returns for a path
PredicateReturns(predicate, path) ==
    /\ path # <<>>
    /\ PatternMatches(Front(path), predicate.selector.items)

\* the items of an array and the properties of an object at path, each
\* with its own path, in their order
ItemsAt(v, path) ==
    IF v.t = "array"
    THEN [i \in DOMAIN v.items |->
             [value |-> v.items[i],
              path |-> Append(path, Normalize(i - 1, 0))]]
    ELSE IF v.t = "object"
    THEN [i \in DOMAIN v.entries |->
             [value |-> v.entries[i].value,
              path |-> Append(path, JStr(v.entries[i].key))]]
    ELSE <<>>

\* the children of the objects and arrays in v, which is at path, whose
\* path the pattern matches, in document order
RECURSIVE StatedChildren(_, _, _)
StatedChildren(v, path, pattern) ==
    IF PatternMatches(path, pattern.items) THEN ItemsAt(v, path)
    ELSE Flatten([i \in DOMAIN ItemsAt(v, path) |->
                     StatedChildren(ItemsAt(v, path)[i].value,
                                    ItemsAt(v, path)[i].path, pattern)])

\* every stream of Children has read all its source has enqueued
ChildrenComplete ==
    /\ phase = "closed"
    /\ Len(detector.out) = Len(output)
    /\ selectorRead = Len(detector.out)
    /\ deserializerRead = Len(selector.out)
    /\ Len(extracted) = Len(deserializer.out)

(***************************************************************************)
(* Token streams of several top-level values: the acceptor of a single    *)
(* document, which takes another value where one has ended                 *)
(***************************************************************************)
Reopened(ts) ==
    IF Len(ts.open) = 1 /\ ts.open[1].at = "done"
    THEN [ts EXCEPT !.open[1].at = "value"]
    ELSE ts

RECURSIVE ValuesRun(_, _, _)
ValuesRun(ts, tokens, i) ==
    IF i > Len(tokens) THEN ts
    ELSE ValuesRun(TokStep(Reopened(ts), tokens[i]), tokens, i + 1)

\* the acceptor after the first n of tokens
TopLevelValues(tokens, n) == ValuesRun(TokStart, SubSeq(tokens, 1, n), 1)

\* the index of the chunk that completes the k-th top-level value
EndIndex(tokens, k) ==
    CHOOSE i \in DOMAIN tokens :
        /\ TopLevelValues(tokens, i).values = k
        /\ TopLevelValues(tokens, i - 1).values = k - 1

\* the index of the first chunk of the k-th top-level value
StartIndex(tokens, k) ==
    CHOOSE i \in DOMAIN tokens :
        /\ tokens[i].type # "WHITESPACE"
        /\ TopLevelValues(tokens, i - 1).values = k - 1
        /\ \A j \in 1..(i - 1) :
              TopLevelValues(tokens, j - 1).values = k - 1
                  => tokens[j].type = "WHITESPACE"

\* the chunks the deserializer has read
DeserializerInput == SubSeq(DeserializerSource, 1, deserializerRead)

(***************************************************************************)
(* Claims about selectors, parseJsonStream and the deserializer           *)
(***************************************************************************)
\* C11: a pattern selector matches a path exactly when they have the same
\* length and each entry of the pattern is undefined, equal to the key or
\* index at its place, or a list that contains it; a predicate selector
\* matches a path exactly when the predicate returns true for it.
C11_SelectorMatchesAsStated ==
    \A i \in DOMAIN detector.out :
        /\ matchesJsonPathSelector(detector.out[i].path,
                                   selectorExpression.selector)
               <=> PatternMatches(detector.out[i].path,
                                  selectorExpression.selector.items)
        /\ matchesJsonPathSelector(detector.out[i].path, selectorExpression)
               <=> PredicateReturns(selectorExpression, detector.out[i].path)

\* the selector has read chunks of a path that a list in the pattern
\* matches, of a path the predicate returns true for and of a path of that
\* length it returns false for
C11_Witness ==
    /\ selectorRead = Len(detector.out)
    /\ \E i \in 1..selectorRead :
          /\ selectorExpression.selector.items # <<>>
          /\ selectorExpression.selector.items[1].t = "array"
          /\ matchesJsonPathSelector(detector.out[i].path,
                                     selectorExpression.selector)
    /\ \E i \in 1..selectorRead : \E j \in 1..selectorRead :
          /\ Len(detector.out[i].path) = Len(detector.out[j].path)
          /\ matchesJsonPathSelector(detector.out[i].path, selectorExpression)
          /\ ~matchesJsonPathSelector(detector.out[j].path,
                                      selectorExpression)

\* C12: parseJsonStream(selector) emits the children of every object and
\* array whose path the selector matches, each whole and once, in document
\* order, empty objects and arrays among them, and nothing for a matched
\* value that is neither an object nor an array.
C12_EmitsTheChildrenOfTheMatched ==
    /\ Len(extracted) <=
           Len(StatedChildren(value, <<>>, selectorExpression.selector))
    /\ \A i \in DOMAIN extracted :
          StructurallyEqual(
              extracted[i],
              StatedChildren(value, <<>>,
                             selectorExpression.selector)[i].value)
    /\ ChildrenComplete =>
           Len(extracted) =
               Len(StatedChildren(value, <<>>, selectorExpression.selector))

\* C13: of chunks that are top-level values one after another, the
\* deserializer has emitted one value for each that is complete, in their
\* order, none for one whose string or container is open, and is back in
\* its first state where a value has ended.
C13_OneValueForEachTopLevelValue ==
    TopLevelValues(DeserializerInput, deserializerRead).ok =>
        /\ Len(deserializer.out) =
               TopLevelValues(DeserializerInput, deserializerRead).values
        /\ \A k \in DOMAIN deserializer.out :
              StructurallyEqual(
                  deserializer.out[k].value,
                  StatedChildren(value, <<>>,
                                 selectorExpression.selector)[k].value)
        /\ Len(TopLevelValues(DeserializerInput, deserializerRead).open) = 1
           /\ TopLevelValues(DeserializerInput, deserializerRead).str = "none"
               => /\ Len(deserializer.state) = 1
                  /\ deserializer.state[1].value = Undefined

\* three values, a container and a string among them, are read and emitted
C13_Witness ==
    /\ ChildrenComplete
    /\ TopLevelValues(DeserializerInput, deserializerRead).ok
    /\ Len(deserializer.out) = 3
    /\ \E k \in DOMAIN deserializer.out :
          deserializer.out[k].value.t = "array"
    /\ \E k \in DOMAIN deserializer.out :
          deserializer.out[k].value.t = "string"

\* C14: a value the deserializer has emitted carries the path of the chunk
\* that completes it, which is the path of its first chunk.
C14_ValueCarriesThePathOfItsChunks ==
    TopLevelValues(DeserializerInput, deserializerRead).ok =>
        \A k \in DOMAIN deserializer.out :
            /\ deserializer.out[k].path =
                   DeserializerInput[EndIndex(DeserializerInput, k)].path
            /\ deserializer.out[k].path =
                   DeserializerInput[StartIndex(DeserializerInput, k)].path

\* an object or array that is not the root is emitted after whitespace
C14_Witness ==
    /\ TopLevelValues(DeserializerInput, deserializerRead).ok
    /\ \E k \in DOMAIN deserializer.out :
          /\ deserializer.out[k].value.t \in {"object", "array"}
          /\ Len(deserializer.out[k].path) = 1
          /\ StartIndex(DeserializerInput, k) > 1
          /\ DeserializerInput[StartIndex(DeserializerInput, k) - 1].type
                 = "WHITESPACE"

(***************************************************************************)
(* Claims about JsonPathStreamSplitter                                     *)
(***************************************************************************)
\* the chunks written to a nested stream so far: those read from it and
\* those waiting to be read
Written(stream) == nested[stream].read \o nested[stream].queue

\* chunks with path put in front of the path of each
Prefixed(tokens, path) ==
    [i \in DOMAIN tokens |-> [tokens[i] EXCEPT !.path = path \o @]]

NoWhitespace(chunk) == chunk.type # "WHITESPACE"

\* the chunks of the k-th top-level value of tokens
ChunksOfValue(tokens, k) ==
    SubSeq(tokens, StartIndex(tokens, k), EndIndex(tokens, k))

\* C15: when all chunks are written and the writable side is closed, the
\* splitter has enqueued one nested stream for each top-level value among
\* the chunks, in their order, and each nested stream has received the
\* chunks of its value and of no other (whitespace chunks aside).
C15_OneNestedStreamForEachValue ==
    splitter.flushed /\ TopLevelValues(chunks, Len(chunks)).ok =>
        /\ Len(splitter.out) = TopLevelValues(chunks, Len(chunks)).values
        /\ \A k \in DOMAIN splitter.out :
              SelectSeq(Prefixed(Written(splitter.out[k]),
                                 nested[splitter.out[k]].path),
                        NoWhitespace)
                  = SelectSeq(ChunksOfValue(chunks, k), NoWhitespace)

\* prefix is what path starts with
IsPrefix(prefix, path) ==
    /\ Len(prefix) <= Len(path)
    /\ SubSeq(path, 1, Len(prefix)) = prefix

\* C16: while a nested stream of path P is open, the next chunk is written
\* to it exactly when P is a prefix of the path of the chunk; a chunk of
\* another path closes that stream and opens a new one, whose path
\* property is the path of the chunk and which receives the chunk.
C16_ChunkGoesToTheStreamOfItsPrefix ==
    [][ splitter'.read = splitter.read + 1
            /\ splitter.currentNestedStream # <<>> =>
        LET chunk == chunks[splitter.read + 1]
            open == splitter.currentNestedStream[1]
            opened == Len(nested) + 1
        IN  IF IsPrefix(open.path, chunk.path)
            THEN /\ Len(nested') = Len(nested)
                 /\ splitter'.out = splitter.out
                 /\ splitter'.currentNestedStream = <<open>>
                 /\ ~nested'[open.writer].closing
                 /\ nested'[open.writer].queue =
                        Append(nested[open.writer].queue,
                               [chunk EXCEPT !.path =
                                   SubSeq(chunk.path, Len(open.path) + 1,
                                          Len(chunk.path))])
            ELSE /\ Len(nested') = opened
                 /\ nested'[open.writer].closing
                 /\ nested'[open.writer].queue = nested[open.writer].queue
                 /\ splitter'.out = Append(splitter.out, opened)
                 /\ splitter'.currentNestedStream =
                        <<[writer |-> opened, path |-> chunk.path]>>
                 /\ nested'[opened].path = chunk.path
                 /\ ~nested'[opened].closing
                 /\ nested'[opened].queue = <<[chunk EXCEPT !.path = <<>>]>>
      ]_vars

\* a nested stream was closed by a chunk of another path, and the nested
\* stream that chunk has opened has received a chunk of a longer path
C16_Witness ==
    /\ ~splitter.flushed
    /\ Len(splitter.out) >= 2
    /\ nested[splitter.out[1]].closing
    /\ nested[splitter.out[1]].path # <<>>
    /\ \E i \in DOMAIN nested[splitter.out[2]].queue :
          nested[splitter.out[2]].queue[i].path # <<>>

\* C17: every chunk written to the splitter is in one nested stream, with
\* the path of that stream taken off the front of its path: the chunks of
\* the nested streams, in the order the streams were enqueued and each
\* with the path of its stream put back in front, are the chunks written.
C17_NestedStreamsTogetherAreTheInput ==
    LET RECURSIVE Together(_)
        Together(k) ==
            IF k = 0 THEN <<>>
            ELSE Together(k - 1) \o
                 Prefixed(Written(splitter.out[k]),
                          nested[splitter.out[k]].path)
    IN  /\ Together(Len(splitter.out)) = SubSeq(chunks, 1, splitter.read)
        /\ \A k \in DOMAIN splitter.out :
              \A i \in DOMAIN Written(splitter.out[k]) :
                 \E j \in 1..splitter.read :
                    /\ chunks[j].path =
                           nested[splitter.out[k]].path
                               \o Written(splitter.out[k])[i].path
                    /\ Len(Written(splitter.out[k])[i].path) =
                           Len(chunks[j].path)
                               - Len(nested[splitter.out[k]].path)

\* all chunks are written, to three nested streams of paths that are not
\* empty, and some are read
C17_Witness ==
    /\ splitter.flushed
    /\ Len(chunks) > 6
    /\ Len(splitter.out) = 3
    /\ \A k \in DOMAIN splitter.out : nested[splitter.out[k]].path # <<>>
    /\ \E k \in DOMAIN splitter.out : nested[splitter.out[k]].read # <<>>
    /\ \E k \in DOMAIN splitter.out : nested[splitter.out[k]].queue # <<>>

(***************************************************************************)
(* Claims about StreamSplitter                                             *)
(***************************************************************************)
\* tokens in groups: a token whose path starts with the path of the first
\* token of the last group belongs to that group, any other token starts
\* a group
RECURSIVE Grouped(_, _, _)
Grouped(groups, tokens, i) ==
    IF i > Len(tokens) THEN groups
    ELSE IF groups # <<>> /\ IsPrefix(Last(groups)[1].path, tokens[i].path)
    THEN Grouped([groups EXCEPT ![Len(groups)] = Append(@, tokens[i])],
                 tokens, i + 1)
    ELSE Grouped(Append(groups, <<tokens[i]>>), tokens, i + 1)

Groups == Grouped(<<>>, chunks, 1)

\* the consumer has read the splitter to its end
OuterComplete ==
    /\ branches.main = Len(chunks)
    /\ branches.mainClosed
    /\ branches.taken > Len(streamSplitter.out)

\* the nested streams enqueued are those of the groups, in their order
Announced ==
    /\ Len(streamSplitter.out) = Len(Groups)
    /\ \A k \in DOMAIN streamSplitter.out :
          nested[streamSplitter.out[k]].path = Groups[k][1].path

NothingRead ==
    \A stream \in DOMAIN nested :
        nested[stream].read = <<>> /\ nested[stream].state = "readable"

Cancelled(stream) == nested[stream].state = "cancelled"

\* the k-th nested stream has yielded the chunks of its group and its end
Yielded(k) ==
    /\ k \in DOMAIN streamSplitter.out
    /\ nested[streamSplitter.out[k]].state = "closed"
    /\ nested[streamSplitter.out[k]].read = Groups[k]

\* C18: the splitter can be read to its end before any nested stream is
\* read; then every nested stream is enqueued, in the order of the groups,
\* and the nested streams that are read afterwards, in any interleaving,
\* each yield the chunks of their group in order and then their end.
C18_OuterStreamFirst ==
    /\ [](OuterComplete /\ NothingRead => Announced)
    /\ (OuterComplete /\ NothingRead) ~>
           \/ \A k \in 1..Len(Groups) : Yielded(k)
           \/ \E stream \in DOMAIN nested : Cancelled(stream)

\* the splitter is read to its end, with three nested streams, and no
\* nested stream is read or cancelled
C18_Witness ==
    /\ OuterComplete
    /\ NothingRead
    /\ Len(streamSplitter.out) = 3
    /\ branches.nested = 0

\* C19: a nested stream gets its chunks and its end whether or not the
\* nested streams before it are read: with a first nested stream that is
\* neither read nor cancelled, the splitter is read to its end and every
\* later nested stream yields the chunks of its group and its end.
C19_LaterStreamsWithoutTheFirst ==
    <>( \/ /\ OuterComplete
           /\ Announced
           /\ \A k \in 2..Len(Groups) :
                 Yielded(k) \/ Cancelled(streamSplitter.out[k])
        \/ \E stream \in DOMAIN nested :
              /\ stream = 1
              /\ nested[stream].read # <<>> \/ Cancelled(stream) )

\* C20: cancelling a nested stream changes nothing of the splitter and of
\* its main stream; nothing more is read from the cancelled stream; and
\* the splitter is still read to its end with every nested stream
\* enqueued, each of which yields the chunks of its group and its end
\* unless it is cancelled too.
C20_CancelLeavesTheOthers ==
    /\ [][ \A stream \in DOMAIN nested :
              /\ Cancelled(stream)' /\ ~Cancelled(stream) =>
                    /\ streamSplitter' = streamSplitter
                    /\ branches' = branches
                    /\ Len(nested') = Len(nested)
                    /\ \A other \in DOMAIN nested \ {stream} :
                          nested'[other] = nested[other]
              /\ Cancelled(stream) => nested'[stream] = nested[stream]
         ]_vars
    /\ (\E stream \in DOMAIN nested : Cancelled(stream)) ~>
           /\ OuterComplete
           /\ Announced
           /\ \A k \in 1..Len(Groups) :
                 \/ Yielded(k)
                 \/ /\ Cancelled(streamSplitter.out[k])
                    /\ IsPrefix(nested[streamSplitter.out[k]].read, Groups[k])

\* the first nested stream was cancelled before all of its group was
\* read, the close of its writer was rejected, and the splitter is read to
\* its end with a later nested stream that has yielded its group
C20_Witness ==
    /\ OuterComplete
    /\ branches.rejected
    /\ Cancelled(streamSplitter.out[1])
    /\ Len(nested[streamSplitter.out[1]].read) < Len(Groups[1])
    /\ \E k \in 2..Len(Groups) : Yielded(k) /\ Len(Groups[k]) > 1

C22_BackPressure ==
    branches.taken <= 1 /\ NothingRead =>
        /\ branches.written <= 1 + Buffered + Upstream
        /\ Len(chunks) > 1 + Buffered + Upstream =>
               branches.written < Len(chunks)

\* the consumer has read one nested stream and nothing else, the input is
\* longer than what the pipe holds, and no further write gets done
C22_Witness ==
    /\ branches.taken = 1
    /\ Len(streamSplitter.out) = 1
    /\ NothingRead
    /\ Len(chunks) > 1 + Buffered + Upstream
    /\ branches.written = 1 + Buffered + Upstream
    /\ branches.pulled = 1 + Buffered
    /\ branches.pc = "writing"

(***************************************************************************)
(* The entries of an object that serializeJson leaves out                 *)
(***************************************************************************)
\* the keys of the entries of value that have a value, in their order
RECURSIVE KeptKeys(_)
KeptKeys(v) ==
    LET val == IF v.t = "function" THEN v.returns ELSE v
    IN  IF val.t \in {"object", "objectStream"}
        THEN Flatten([i \in 1..Len(val.entries) |->
                 LET w == val.entries[i].value
                     x == IF w.t = "function" THEN w.returns ELSE w
                 IN  IF x.t \in {"undefined", "symbol"} THEN <<>>
                     ELSE <<val.entries[i].key>> \o KeptKeys(x)])
        ELSE IF val.t \in {"array", "arrayStream"}
        THEN Flatten([i \in 1..Len(val.items) |-> KeptKeys(val.items[i])])
        ELSE <<>>

\* the chunks of the serializer that are no whitespace
Significant == SelectSeq(serialized, NoWhitespace)

KeysOf(tokens) ==
    LET keys == SelectSeq(tokens, LAMBDA c :
                    c.type = "STRING_CHUNK" /\ c.role = "KEY")
    IN  [i \in 1..Len(keys) |-> keys[i].value]

IsKeyStart(c) == c.type = "STRING_START" /\ c.role = "KEY"

IsValueStart(c) ==
    \/ c.type \in {"OBJECT_START", "ARRAY_START", "NUMBER_VALUE",
                   "BOOLEAN_VALUE", "NULL_VALUE"}
    \/ c.type = "STRING_START" /\ c.role = "VALUE"

IsValueEnd(c) ==
    \/ c.type \in {"OBJECT_END", "ARRAY_END", "NUMBER_VALUE",
                   "BOOLEAN_VALUE", "NULL_VALUE"}
    \/ c.type = "STRING_END" /\ c.role = "VALUE"

\* C23: the keys the serializer emits are those of the entries whose
\* resolved value is not undefined, no symbol and no function returning
\* undefined, each followed by a colon and a value, and a comma stands
\* between two emitted entries or items only: never after the opening
\* token, before the closing token or next to another comma
C23_SkippedEntriesLeaveNoComma ==
    serialized # <<>> =>
        /\ KeysOf(serialized) = KeptKeys(value)
        /\ \A i \in 1..Len(Significant) :
              /\ IsKeyStart(Significant[i]) =>
                    /\ i > 1
                    /\ Significant[i - 1].type \in {"OBJECT_START", "COMMA"}
                    /\ Significant[i - 1].type = "COMMA" =>
                           IsValueEnd(Significant[i - 2])
              /\ Significant[i].type = "COLON" =>
                    /\ Significant[i - 1].type = "STRING_END"
                    /\ Significant[i - 1].role = "KEY"
                    /\ IsValueStart(Significant[i + 1])
              /\ Significant[i].type = "COMMA" =>
                    /\ IsValueEnd(Significant[i - 1])
                    /\ \/ IsKeyStart(Significant[i + 1])
                       \/ IsValueStart(Significant[i + 1])
              /\ Significant[i].type = "OBJECT_END" =>
                    \/ Significant[i - 1].type = "OBJECT_START"
                    \/ IsValueEnd(Significant[i - 1])

\* an object whose first, third and last entries are left out is
\* serialized with one comma
C23_Witness ==
    /\ value = JObject(<<Entry(Str(<<"a">>), Undefined),
                         Entry(Str(<<"b">>), JNum(1, 0)),
                         Entry(Str(<<"c">>), Symbol),
                         Entry(Str(<<"d">>), Function(JNull)),
                         Entry(Str(<<"e">>), Function(Undefined))>>)
    /\ KeysOf(serialized) = <<Str(<<"b">>), Str(<<"d">>)>>
    /\ Len(SelectSeq(serialized, LAMBDA c : c.type = "COMMA")) = 1


(***************************************************************************)
(* JSON.stringify(value, undefined, space) of ECMA-262, for a value       *)
(* without toJSON: the text the pretty-printed output is compared with    *)
(***************************************************************************)
Min(a, b) == IF a < b THEN a ELSE b

\* the gap of JSON.stringify: at most ten spaces, or the first ten code
\* units of a string
Gap(sp) ==
    IF sp.t = "number"
    THEN [i \in 1..Min(10, ToIntegerOrInfinity(sp)) |-> Ord[" "]]
    ELSE IF sp.t = "string" THEN SubSeq(sp.s, 1, Min(10, Len(sp.s)))
    ELSE <<>>

RECURSIVE Join(_, _)
Join(parts, sep) ==
    IF parts = <<>> THEN <<>>
    ELSE IF Len(parts) = 1 THEN parts[1]
    ELSE parts[1] \o sep \o Join(Tail(parts), sep)

NoText == [defined |-> FALSE, text |-> <<>>]
SomeText(text) == [defined |-> TRUE, text |-> text]

\* SerializeJSONProperty, SerializeJSONObject and SerializeJSONArray
RECURSIVE SerializeJSONProperty(_, _, _)
SerializeJSONProperty(v, gap, stepback) ==
    LET indent == stepback \o gap
        wrap(open, partial, close) ==
            IF partial = <<>> THEN open \o close
            ELSE IF gap = <<>>
            THEN open \o Join(partial, <<Ord[","]>>) \o close
            ELSE open \o <<Ord["\n"]>> \o indent
                 \o Join(partial, <<Ord[","], Ord["\n"]>> \o indent)
                 \o <<Ord["\n"]>> \o stepback \o close
    IN
    IF v.t = "null" THEN SomeText(Str(<<"n", "u", "l", "l">>))
    ELSE IF v.t = "boolean" THEN SomeText(BooleanToString(v.b))
    ELSE IF v.t = "string"
    THEN SomeText(<<Ord["\""]>> \o QuoteJSONString(v.s, 1) \o <<Ord["\""]>>)
    ELSE IF v.t = "number" THEN SomeText(NumberToString(v))
    ELSE IF v.t = "array"
    THEN SomeText(wrap(<<Ord["["]>>,
             [i \in 1..Len(v.items) |->
                 LET strP == SerializeJSONProperty(v.items[i], gap, indent)
                 IN  IF strP.defined THEN strP.text
                     ELSE Str(<<"n", "u", "l", "l">>)],
             <<Ord["]"]>>))
    ELSE IF v.t = "object"
    THEN SomeText(wrap(<<Ord["{"]>>,
             LET members ==
                     [i \in 1..Len(v.entries) |->
                         SerializeJSONProperty(v.entries[i].value, gap,
                                               indent)]
                 kept == SelectSeq([i \in 1..Len(v.entries) |-> i],
                                   LAMBDA i : members[i].defined)
             IN  [k \in 1..Len(kept) |->
                     <<Ord["\""]>>
                     \o QuoteJSONString(v.entries[kept[k]].key, 1)
                     \o <<Ord["\""], Ord[":"]>>
                     \o (IF gap # <<>> THEN <<Ord[" "]>> ELSE <<>>)
                     \o members[kept[k]].text],
             <<Ord["}"]>>))
    ELSE NoText

JSONStringify(v, sp) == SerializeJSONProperty(v, Gap(sp), <<>>)

\* a value JSON.stringify and the serializer read alike: no function and
\* no stream in it
RECURSIVE Plain(_)
Plain(v) ==
    IF v.t = "array" THEN \A i \in 1..Len(v.items) : Plain(v.items[i])
    ELSE IF v.t = "object"
    THEN \A i \in 1..Len(v.entries) : Plain(v.entries[i].value)
    ELSE v.t \in {"null", "boolean", "number", "string", "undefined",
                  "symbol"}

\* the indentation of one level the space parameter stands for
IndentString(sp) ==
    IF sp.t = "number"
    THEN [i \in 1..ToIntegerOrInfinity(sp) |-> Ord[" "]]
    ELSE IF sp.t = "string" THEN sp.s
    ELSE <<>>

\* n copies of a string
Copies(string, n) ==
    [i \in 1..(n * Len(string)) |-> string[((i - 1) % Len(string)) + 1]]

IsStart(c) == c.type \in {"OBJECT_START", "ARRAY_START"}
IsEnd(c) == c.type \in {"OBJECT_END", "ARRAY_END"}

\* the number of containers that are open before chunk i of tokens
Depth(tokens, i) ==
    Cardinality({k \in 1..(i - 1) : IsStart(tokens[k])})
    - Cardinality({k \in 1..(i - 1) : IsEnd(tokens[k])})

\* the whitespace that has to stand before chunk i of tokens, or <<>>
WhitespaceBefore(tokens, i, indentString) ==
    IF i = 1 THEN <<>>
    ELSE LET before == IF tokens[i - 1].type = "WHITESPACE"
                       THEN tokens[i - 2] ELSE tokens[i - 1]
             depth == Depth(tokens, i)
         IN  IF before.type = "COLON" THEN <<Ord[" "]>>
             ELSE IF IsEnd(tokens[i])
             THEN IF IsStart(before) THEN <<>>
                  ELSE <<Ord["\n"]>> \o Copies(indentString, depth - 1)
             ELSE IF IsStart(before) \/ before.type = "COMMA"
             THEN <<Ord["\n"]>> \o Copies(indentString, depth)
             ELSE <<>>

\* the whitespace chunks of the serializer are those that have to stand
\* before the chunks that follow them, and there are no others
WhitespaceAsStated ==
    \A i \in 1..Len(serialized) :
        /\ serialized[i].type = "WHITESPACE" =>
              /\ IndentString(space) # <<>>
              /\ i > 1 /\ i < Len(serialized)
              /\ serialized[i + 1].type # "WHITESPACE"
              /\ serialized[i].rawValue =
                     WhitespaceBefore(serialized, i + 1, IndentString(space))
        /\ ( /\ serialized[i].type # "WHITESPACE"
             /\ IndentString(space) # <<>>
             /\ WhitespaceBefore(serialized, i, IndentString(space)) # <<>> )
              => serialized[i - 1].type = "WHITESPACE"

\* C24: with an indentation I the whitespace chunks of the serializer are
\* newline and d copies of I before each item at depth d, newline and d - 1
\* copies before the closing token of a container with items, nothing in
\* an empty container and one space after each colon, and no whitespace
\* chunk at all without indentation; the text is that of
\* JSON.stringify(value, undefined, space)
C24_PrettyPrintedAsJSONStringify ==
    serialized # <<>> =>
        /\ WhitespaceAsStated
        /\ ( Plain(value) /\ JSONStringify(value, space).defined ) =>
               StringifiedText(serialized) = JSONStringify(value, space).text

\* the same, for an indentation of at most ten code units
C24_PrettyPrintedUpToTen ==
    ( serialized # <<>> /\ Len(IndentString(space)) <= 10
      /\ Plain(value) /\ JSONStringify(value, space).defined ) =>
        StringifiedText(serialized) = JSONStringify(value, space).text


\* the space parameter is missing, zero or negative
Disabling(sp) ==
    \/ sp.t = "undefined"
    \/ sp.t = "number" /\ sp.m <= 0

\* C25: with a space that is missing, zero or negative the serializer
\* does not fail and emits no whitespace chunk; with a positive integer n
\* each level is indented by n spaces, with a string by that string
C25_SpaceParameter ==
    /\ Disabling(space) =>
          /\ serializer.err = NoError
          /\ \A i \in 1..Len(serialized) :
                serialized[i].type # "WHITESPACE"
    /\ ( ~Disabling(space) /\ serialized # <<>> ) =>
          \A i \in 2..Len(serialized) :
              ( /\ serialized[i - 1].type \in
                       {"OBJECT_START", "ARRAY_START", "COMMA"}
                /\ ~IsEnd(serialized[i])
                /\ IndentString(space) # <<>> ) =>
                  /\ serialized[i].type = "WHITESPACE"
                  /\ serialized[i].rawValue =
                         <<Ord["\n"]>>
                         \o Copies(IndentString(space), Depth(serialized, i))

\* the same for the numbers that are no negative count of repeat
C25_SpaceOfNoNegativeCount ==
    ( space.t = "number" => ToIntegerOrInfinity(space) >= 0 ) =>
        C25_SpaceParameter


(***************************************************************************)
(* Texts of several documents                                              *)
(***************************************************************************)
RECURSIVE RfcSkipSeparators(_, _)
RfcSkipSeparators(text, i) ==
    IF i <= Len(text) /\ text[i] \in RfcWs \cup {30}
    THEN RfcSkipSeparators(text, i + 1) ELSE i

\* *( ws / RS ) *( value *( ws / RS ) ): "valid", "incomplete" or "invalid"
RECURSIVE RfcSequence(_, _)
RfcSequence(text, i) ==
    LET j == RfcSkipSeparators(text, i)
        v == RfcValue(text, j)
    IN  IF j > Len(text) THEN "valid"
        ELSE IF v = Rfc.invalid THEN "invalid"
        ELSE IF v = Rfc.incomplete THEN "incomplete"
        ELSE RfcSequence(text, v)

\* the chunks of the documents, each parsed on its own
DocumentChunks(documents) ==
    Flatten([i \in 1..Len(documents) |->
                flush(transform(NewParser, documents[i], 0)).out])

\* C26: a parser with multi does not fail on a text of values separated by
\* whitespace and record separators, a text without any value included;
\* when it has closed, the text was such a text, the parser is before the
\* first or after the last value, and the chunks it has emitted are those
\* of the documents in their order and the whitespace between them
C26_MultiDocument ==
    /\ RfcSequence(input \o rest, 1) = "valid" => phase # "errored"
    /\ phase = "closed" =>
          /\ RfcSequence(input, 1) = "valid"
          /\ Last(state).type \in {"start", "end"}
          /\ StringifiedText(output) = input
          /\ \A m \in MultiInputs :
                m.text = input =>
                    Merged(SelectSeq(output, NoWhitespace))
                        = Merged(DocumentChunks(m.documents))

\* the three documents of a JSON text sequence, written in three chunks
C26_Witness ==
    /\ phase = "closed"
    /\ chunkCount = 3
    /\ input = Str(<<"RS", "1", "\n", "RS", "[", "]", "\n", "RS",
                     "\"", "b", "\"", "\n">>)
    /\ Len(SelectSeq(output, NoWhitespace)) = 6

\* a text without a document
C26_WitnessNoDocument ==
    /\ phase = "closed"
    /\ input = Str(<<"RS", "\n", "RS", " ">>)


(***************************************************************************)
(* The construction of a JsonPathSelector                                  *)
(***************************************************************************)
\* C27: the construction of a path selector from a selector with an index
\* below zero raises InvalidSelector, before any token is processed
C27_InvalidSelectorAtConstruction ==
    ( HasNegativeIndex(selectorExpression) /\ route # "new" ) =>
        /\ selector.err = InvalidSelector
        /\ selectorRead = 0

\* C27 as amended: the construction of a path selector raises nothing,
\* whatever the selector; a selector all of whose alternatives of one item
\* are indexes below zero is kept and forwards no token of the detector
C27_ConstructionNeverFails ==
    route # "new" =>
        /\ selector.err = NoError
        /\ selectorExpression \in MalformedSelectors => selector.out = <<>>

\* the selector [-1] has read all tokens of [1,[2,3]]
C27_Witness ==
    /\ selectorExpression = JArray(<<JNum(-1, 0)>>)
    /\ phase = "closed"
    /\ selectorRead = Len(output)
    /\ selectorRead > 5
    /\ selector.err = NoError


(***************************************************************************)
(* The stream tags of a serialized value                                   *)
(***************************************************************************)
\* the serializer has ended: transform has returned or thrown, or the
\* write was rejected
SerializerEnded == serializer.pc \in {"done", "failed"}

\* each tag is read by one reader and each of its strings once
ReadOnce ==
    /\ \A k \in 1..Len(Tags(value)) :
          /\ serializer.tags[k].readers <= 1
          /\ serializer.tags[k].taken <= Len(Tags(value)[k].chunks)
    /\ serializer.pc = "done" =>
          /\ \A k \in 1..Len(Tags(value)) :
                /\ serializer.tags[k].readers = 1
                /\ serializer.tags[k].taken = Len(Tags(value)[k].chunks)
          /\ serialized = serializeJson(value, space, <<>>)

\* C28: a stream tag is read once, and when the consumer has cancelled
\* the readable side of the serializer before a tag was exhausted, the
\* stream of the tag is cancelled
C28_TagReadOnceAndCancelled ==
    /\ ReadOnce
    /\ ( SerializerEnded /\ serializer.readable = "cancelled" ) =>
          \A k \in 1..Len(Tags(value)) :
              \/ Exhausted(serializer.tags[k])
              \/ serializer.tags[k].cancelled

\* the same for the tag whose loop the generator is in when it ends: the
\* stream that has a reader is cancelled or exhausted
C28_TagWithReaderIsCancelled ==
    /\ ReadOnce
    /\ ( SerializerEnded /\ serializer.readable = "cancelled" ) =>
          \A k \in 1..Len(Tags(value)) :
              serializer.tags[k].readers = 1 =>
                  \/ Exhausted(serializer.tags[k])
                  \/ serializer.tags[k].cancelled

\* the first of two tags is cancelled after one of its two strings
C28_Witness ==
    /\ Len(Tags(value)) = 2
    /\ serializer.pc = "failed"
    /\ serializer.tags[1].cancelled
    /\ serializer.tags[1].taken = 2
    /\ Len(serialized) = 3


(***************************************************************************)
(* The abort callback of an AbortHandlingTransformStream                  *)
(***************************************************************************)
\* C29: the abort callback is called at most once, with the reason of the
\* abort, and once when the writable side was aborted; the readable side
\* is then errored with the error the callback has thrown or passed to
\* controller.error, or with the reason when there is no callback; the
\* callback is not called when the stream is written to and closed
C29_AbortCallback ==
    /\ Len(abortHandling.calls) <= 1
    /\ abortHandling.calls # <<>> =>
           abortHandling.calls = abortHandling.reason
    /\ abortHandling.writable \in {"writable", "closed"} =>
           abortHandling.calls = <<>>
    /\ abortHandling.writable = "errored" =>
          /\ abortHandling.callback # "none" =>
                 abortHandling.calls = abortHandling.reason
          /\ abortHandling.callback = "none" =>
                /\ abortHandling.calls = <<>>
                /\ abortHandling.readable = "errored"
                /\ abortHandling.storedError = abortHandling.reason
          /\ abortHandling.callback = "throws" =>
                /\ abortHandling.readable = "errored"
                /\ abortHandling.storedError = <<Thrown>>
          /\ abortHandling.callback = "errors" =>
                /\ abortHandling.readable = "errored"
                /\ abortHandling.storedError = <<Passed>>
          /\ abortHandling.callback = "errorsAndThrows" =>
                /\ abortHandling.readable = "errored"
                /\ abortHandling.storedError \in {<<Passed>>, <<Thrown>>}

\* a stream with a callback that throws is aborted after a chunk has gone
\* through it
C29_Witness ==
    /\ abortHandling.callback = "throws"
    /\ abortHandling.writable = "errored"
    /\ abortHandling.calls = <<"test1">>
    /\ abortHandling.storedError = <<Thrown>>
    /\ Len(abortHandling.out) = 1


(***************************************************************************)
(* The chunks outside every array and object                               *)
(***************************************************************************)
\* C30: the path detector does not fail on a chunk that arrives while no
\* array or object is open, and the chunks that have arrived so carry the
\* empty path
C30_RootLevelChunks ==
    /\ \A i \in 1..Len(detector.out) :
          Depth(output, i) = 0 => detector.out[i].path = <<>>
    /\ ( /\ Len(detector.out) < Len(output)
         /\ Depth(output, Len(detector.out) + 1) = 0 ) =>
           detector.err = NoError

\* the same for the chunks that start an array or an object
C30_RootLevelStarts ==
    /\ \A i \in 1..Len(detector.out) :
          Depth(output, i) = 0 => detector.out[i].path = <<>>
    /\ ( /\ Len(detector.out) < Len(output)
         /\ Depth(output, Len(detector.out) + 1) = 0
         /\ IsStart(output[Len(detector.out) + 1]) ) =>
           detector.err = NoError

(***************************************************************************)
(* Claims about the tokens the parser emits at the ends of chunks         *)
(***************************************************************************)
\* what the escape character c after a backslash stands for (RFC 8259,
\* section 7)
RfcEscaped(c) ==
    IF c = 98 THEN 8 ELSE IF c = 102 THEN 12 ELSE IF c = 110 THEN 10
    ELSE IF c = 114 THEN 13 ELSE IF c = 116 THEN 9 ELSE c

RfcHexValue(c) ==
    IF RfcDigit(c) THEN c - 48 ELSE IF c >= 97 THEN c - 87 ELSE c - 55

\* the decoding of raw[i..] as complete escape sequences and unescaped
\* characters, or complete = FALSE when raw[i..] is no sequence of them
RECURSIVE Decoding(_, _)
Decoding(raw, i) ==
    IF i > Len(raw) THEN [complete |-> TRUE, value |-> <<>>]
    ELSE LET unit ==
                 IF raw[i] = 92 THEN
                     IF i + 1 <= Len(raw) /\ raw[i + 1] \in RfcEscapes
                     THEN [len |-> 2, value |-> RfcEscaped(raw[i + 1])]
                     ELSE IF /\ i + 5 <= Len(raw)
                             /\ raw[i + 1] = 117
                             /\ \A k \in 2..5 : RfcHex(raw[i + k])
                     THEN [len |-> 6,
                           value |-> 4096 * RfcHexValue(raw[i + 2])
                                     + 256 * RfcHexValue(raw[i + 3])
                                     + 16 * RfcHexValue(raw[i + 4])
                                     + RfcHexValue(raw[i + 5])]
                     ELSE [len |-> 0, value |-> 0]
                 ELSE IF raw[i] = 34 \/ raw[i] < 32
                 THEN [len |-> 0, value |-> 0]
                 ELSE [len |-> 1, value |-> raw[i]]
         IN  IF unit.len = 0 THEN [complete |-> FALSE, value |-> <<>>]
             ELSE \* the rest, evaluated once
                  CHOOSE r \in
                      { [complete |-> more.complete,
                         value |-> <<unit.value>> \o more.value]
                        : more \in {Decoding(raw, i + unit.len)} } : TRUE

\* the parser stands inside an escape sequence
InsideEscape ==
    Last(state).type \in {"string_after_backslash", "string_after_backslash_u"}

\* C31: however the input is split into chunks, also inside a backslash
\* escape or inside the four hexadecimal digits of a \uXXXX escape, the
\* rawValue of every StringChunk is a sequence of complete escape sequences
\* and unescaped characters, and its value is the decoding of that rawValue.
C31_NoStringChunkEndsInsideAnEscape ==
    \A i \in DOMAIN output :
        output[i].type = "STRING_CHUNK" =>
            /\ Decoding(output[i].rawValue, 1).complete
            /\ Decoding(output[i].rawValue, 1).value = output[i].value

\* a chunk has ended between the hexadecimal digits of a \uXXXX escape,
\* after a StringChunk that holds an escape sequence was emitted
C31_Witness ==
    /\ chunkCount >= 1
    /\ phase = "writable"
    /\ Last(state).type = "string_after_backslash_u"
    /\ Len(Last(state).value) \in 1..3
    /\ \E i \in DOMAIN output :
          /\ output[i].type = "STRING_CHUNK"
          /\ Len(output[i].rawValue) > Len(output[i].value)

\* the part of the input that no emitted token holds
Unemitted ==
    SubSeq(input, Len(StringifiedText(output)) + 1, Len(input))

\* text is the beginning of an escape sequence that is not complete
IsEscapePrefix(text) ==
    /\ Len(text) \in 1..5
    /\ text[1] = 92
    /\ Len(text) >= 2 => text[2] = 117
    /\ \A k \in 3..Len(text) : RfcHex(text[k])

\* text is made of the characters of numbers
IsNumberPrefix(text) ==
    /\ text # <<>>
    /\ \A k \in DOMAIN text : RfcDigit(text[k]) \/ text[k] \in {45, 43, 46, 101, 69}

RfcLiterals ==
    { <<116, 114, 117, 101>>, <<102, 97, 108, 115, 101>>,
      <<110, 117, 108, 108>> }

\* text is the beginning of true, false or null, and not all of it
IsLiteralPrefix(text) ==
    /\ text # <<>>
    /\ \E word \in RfcLiterals :
          Len(text) < Len(word) /\ text = SubSeq(word, 1, Len(text))

\* C32: after each chunk of the input the tokens emitted hold all of the
\* input read so far but an escape sequence, a number or a literal that is
\* not complete: the content of a string that is still open and the
\* whitespace read are emitted.  A number is emitted only with the
\* character after it or at the end of the stream, and true, false and
\* null are emitted whole.
C32_FlushedAtTheEndOfEachChunk ==
    /\ phase = "writable" /\ chunkCount >= 1 =>
          /\ StartsWith(input, StringifiedText(output))
          /\ \/ Unemitted = <<>>
             \/ IsEscapePrefix(Unemitted)
             \/ IsNumberPrefix(Unemitted)
             \/ IsLiteralPrefix(Unemitted)
    /\ \A i \in DOMAIN output :
          output[i].type = "NUMBER_VALUE" =>
              \/ phase # "writable"
              \/ Len(StringifiedText(SubSeq(output, 1, i))) < Len(input)
    /\ \A i \in DOMAIN output :
          output[i].type \in {"BOOLEAN_VALUE", "NULL_VALUE"} =>
              output[i].rawValue \in RfcLiterals

\* a chunk has ended inside a string after whitespace: the content of the
\* string read so far is emitted, and the string is still open
C32_Witness ==
    /\ phase = "writable"
    /\ chunkCount >= 1
    /\ Last(state).type = "string"
    /\ Last(output).type = "STRING_CHUNK"
    /\ Last(output).rawValue # <<>>
    /\ HasType(output, "WHITESPACE")
    /\ Unemitted = <<>>

\* the offset in the input at which the raw text of output[i] ends
EndOf(i) == Len(StringifiedText(SubSeq(output, 1, i)))

\* c is a character numbers are made of
IsNumberChar(c) == RfcDigit(c) \/ c \in {45, 43, 46, 101, 69}

\* the tokens that may follow a value
AfterValue == {"COMMA", "ARRAY_END", "OBJECT_END", "WHITESPACE"}

RECURSIVE KeyUpTo(_, _)
KeyUpTo(tokens, i) ==
    IF i = 0 THEN <<>>
    ELSE IF tokens[i].type = "STRING_START" /\ tokens[i].role = "KEY"
    THEN <<>>
    ELSE IF tokens[i].type = "STRING_CHUNK" /\ tokens[i].role = "KEY"
    THEN KeyUpTo(tokens, i - 1) \o tokens[i].value
    ELSE KeyUpTo(tokens, i - 1)

\* every stream has read all of the text
KeysComplete ==
    /\ phase = "closed"
    /\ Len(detector.out) = Len(output)
    /\ deserializerRead = Len(detector.out)

\* C34: a key that arrives as several StringChunks is one key, the
\* concatenation of their values: the chunk after the Colon of a property
\* carries that key as the last segment of its path, the deserializer
\* stores the property under it, and the key of one property is no part
\* of the key of the next.
C34_KeyIsTheConcatenationOfItsChunks ==
    /\ detector.err = NoError
    /\ \A i \in 1..(Len(detector.out) - 1) :
          detector.out[i].type = "COLON" =>
              /\ detector.out[i + 1].path # <<>>
              /\ Last(detector.out[i + 1].path) = JStr(KeyUpTo(detector.out, i))
    /\ \A i \in DOMAIN deserializer.out :
          StructurallyEqual(deserializer.out[i].value, value)
    /\ KeysComplete => Len(deserializer.out) = 1

\* the text was written with two chunk ends inside keys, so that a key
\* has arrived as two StringChunks that are not empty, and the object has
\* come out of the deserializer
C34_Witness ==
    /\ KeysComplete
    /\ Len(deserializer.out) = 1
    /\ \E i \in 1..(Len(detector.out) - 1) :
          /\ detector.out[i].type = "STRING_CHUNK"
          /\ detector.out[i].role = "KEY"
          /\ detector.out[i].value # <<>>
          /\ detector.out[i + 1].type = "STRING_CHUNK"
          /\ detector.out[i + 1].value # <<>>
    /\ Len(value.entries) = 2

(***************************************************************************)
(* Claims about the two branches of the tee of StreamSplitter             *)
(***************************************************************************)
\* the groups of the first n chunks, as one pass over them makes them
GroupsUpTo(n) == Grouped(<<>>, SubSeq(chunks, 1, n), 1)

\* the chunkIdx of the first chunk of the g-th group
RECURSIVE FirstIdx(_)
FirstIdx(g) == IF g = 1 THEN 0 ELSE FirstIdx(g - 1) + Len(Groups[g - 1])

\* the chunks handleChunk has classified
Classified ==
    IF streamSplitter.lastChunkIdx = <<>> THEN 0
    ELSE streamSplitter.lastChunkIdx[1] + 1

\* the chunks handleNestedChunk has called handleChunk for, and those it
\* has written
NestedHandled == branches.nested + (IF branches.pc = "idle" THEN 0 ELSE 1)
NestedWritten == branches.nested + (IF branches.pc = "writing" THEN 1 ELSE 0)

\* the nested streams handleChunk has created are those of the groups of
\* the chunks classified, each once
CreatedOnce ==
    /\ Classified = (IF branches.main > NestedHandled
                     THEN branches.main ELSE NestedHandled)
    /\ Len(nested) = Len(GroupsUpTo(Classified))
    /\ \A g \in DOMAIN nested : nested[g].path = Groups[g][1].path

\* the nested streams enqueued are those of the groups of the chunks
\* transformMain has handled, each once, and the others wait in
\* nestedStreams under the index of their first chunk
AnnouncedOnce ==
    LET announced == Len(GroupsUpTo(branches.main))
    IN  /\ streamSplitter.out = [g \in 1..announced |-> g]
        /\ DOMAIN streamSplitter.nestedStreams =
               {FirstIdx(g) : g \in (announced + 1)..Len(nested)}
        /\ \A g \in (announced + 1)..Len(nested) :
               streamSplitter.nestedStreams[FirstIdx(g)] = g

\* the writers handleNestedChunk has picked up are those of the groups of
\* the chunks it has handled, each once, and the others wait in
\* nestedWriters; a nested stream that is not cancelled has received the
\* chunks of its group that handleNestedChunk has written
PickedUpOnce ==
    LET picked == Len(GroupsUpTo(NestedWritten))
    IN  /\ streamSplitter.currentWriter =
               (IF picked = 0 THEN <<>> ELSE <<picked>>)
        /\ DOMAIN streamSplitter.nestedWriters =
               {FirstIdx(g) : g \in (picked + 1)..Len(nested)}
        /\ \A g \in (picked + 1)..Len(nested) :
               streamSplitter.nestedWriters[FirstIdx(g)] = g
        /\ \A g \in DOMAIN nested :
               nested[g].state \in {"readable", "closed"} =>
                   Written(g) = (IF g <= picked
                                 THEN GroupsUpTo(NestedWritten)[g]
                                 ELSE <<>>)

\* C35: in every interleaving of the two branches of the tee, each chunk
\* is classified once and in the order of the chunks, each nested stream
\* is created once, enqueued on the outer stream once and its writer
\* picked up once by the branch that writes, so that the chunks are
\* grouped as one pass over them groups them.
C35_BranchesAgreeOnTheGroups ==
    /\ [](CreatedOnce /\ AnnouncedOnce /\ PickedUpOnce)
    /\ [][Classified' \in {Classified, Classified + 1}]_vars

\* the branch that writes is ahead of the branch that enqueues and has
\* created a nested stream that is not enqueued yet, after the other
\* branch has created and enqueued one that it has picked up
C35_Witness ==
    /\ NestedHandled > branches.main
    /\ DOMAIN streamSplitter.nestedStreams # {}
    /\ Len(streamSplitter.out) >= 1
    /\ Len(nested) >= 2

\* the reader of a nested stream has its done signal, or has cancelled
Ended(stream) ==
    /\ stream \in DOMAIN nested
    /\ nested[stream].state \in {"closed", "cancelled"}

\* C36: when the input of the splitter has closed and the consumer keeps
\* reading what it has received, or cancels it, the outer stream closes
\* and every nested stream that was enqueued is closed in the end: no
\* reader of a nested stream waits for its end forever.
C36_EveryNestedStreamEnds ==
    /\ <>[]OuterComplete
    /\ \A stream \in 1..MaxNested :
          [](stream \in Taken => <>[]Ended(stream))

\* the outer stream is read to its end; of its three nested streams two
\* were read to their end and one was cancelled
C36_Witness ==
    /\ OuterComplete
    /\ branches.done
    /\ Len(streamSplitter.out) = 3
    /\ \A stream \in Taken : Ended(stream)
    /\ \E stream \in Taken : nested[stream].state = "cancelled"
    /\ \E stream \in Taken :
          nested[stream].state = "closed" /\ nested[stream].read # <<>>

(***************************************************************************)
(* Claims about the readable side after an abort                           *)
(***************************************************************************)
\* the writable side is aborted
Aborted == abortHandling.writable \in {"erroring", "errored"}

\* C37: after an abort of the writable side the readable side is errored
\* in the end, whatever the abort callback does: throw, call
\* controller.error, or return without doing either.
C37_AbortAlwaysErrorsTheReadableSide ==
    [](Aborted => <>(abortHandling.readable = "errored"))

\* the same for the streams whose abort callback throws or calls
\* controller.error and for those without one
C37_AbortErrorsUnlessTheCallbackReturns ==
    [](Aborted /\ abortHandling.callback # "returns" =>
           <>(abortHandling.readable = "errored"))

(***************************************************************************)
(* Claims about the values the selector forwards                           *)
(***************************************************************************)
\* the end token of a start token
EndTypeOf(type) ==
    IF type = "OBJECT_START" THEN "OBJECT_END"
    ELSE IF type = "ARRAY_START" THEN "ARRAY_END"
    ELSE "STRING_END"

\* the end tokens that tokens[i..] has to bring, innermost last, when
\* expected are those that tokens[1..i-1] has to bring; <<"unmatched">>
\* when an end token comes that is not the one expected
RECURSIVE Expected(_, _, _)
Expected(tokens, i, expected) ==
    IF i > Len(tokens) THEN expected
    ELSE IF tokens[i].type \in {"OBJECT_START", "ARRAY_START", "STRING_START"}
    THEN Expected(tokens, i + 1, Append(expected, EndTypeOf(tokens[i].type)))
    ELSE IF tokens[i].type \in {"OBJECT_END", "ARRAY_END", "STRING_END"}
    THEN IF expected # <<>> /\ Last(expected) = tokens[i].type
         THEN Expected(tokens, i + 1, Front(expected))
         ELSE <<"unmatched">>
    ELSE Expected(tokens, i + 1, expected)

\* the document is written and closed, and the detector and the selector
\* have read all of it
SelectorComplete ==
    /\ phase = "closed"
    /\ Len(detector.out) = Len(output)
    /\ selectorRead = Len(detector.out)

\* a document with an empty object
HasEmptyObject(tokens) ==
    \E i \in DOMAIN tokens : \E j \in (i + 1)..Len(tokens) :
        /\ tokens[i].type = "OBJECT_START"
        /\ tokens[j].type = "OBJECT_END"
        /\ \A k \in (i + 1)..(j - 1) : tokens[k].type = "WHITESPACE"

\* C38: of a well-formed document the selector forwards complete values:
\* every ObjectStart, ArrayStart and StringStart it has forwarded is
\* followed by the end token that matches it.
C38_SelectedValuesAreComplete ==
    SelectorComplete => Expected(selector.out, 1, <<>>) = <<>>

\* the same for the documents without an empty object
C38_CompleteWithoutEmptyObjects ==
    SelectorComplete /\ ~HasEmptyObject(output) =>
        Expected(selector.out, 1, <<>>) = <<>>

(***************************************************************************)
(* Claims about the raw text of the tokens and of the parser state        *)
(***************************************************************************)
\* the raw text buffered in the states of a chain, outermost first
RECURSIVE BufferedText(_)
BufferedText(chain) ==
    IF chain = <<>> THEN <<>>
    ELSE BufferedText(Front(chain))
         \o (IF "rawValue" \in DOMAIN Last(chain)
             THEN Last(chain).rawValue ELSE <<>>)

\* the raw text a parser holds: that of the tokens it has emitted and
\* that of its state
HeldText(p) == StringifiedText(p.out) \o BufferedText(p.state)

\* what the parser p has consumed of text: what comes before the
\* character it has failed on, if any
ConsumedOf(p, text) ==
    IF p.err.name = "UnexpectedCharError"
    THEN SubSeq(text, 1, p.err.position)
    ELSE text

\* C39: for any input, at the end of each chunk, after each character
\* within a chunk and after a failure, the raw text of the tokens emitted
\* followed by the raw text buffered in the parser state is the input
\* consumed; so the raw text emitted is a prefix of the input.
C39_EmittedAndBufferedIsTheInput ==
    /\ HeldText(thisParser) = ConsumedOf(thisParser, input)
    /\ StartsWith(input, StringifiedText(output))
    /\ phase = "writable" =>
          \A chunk \in NextChunks :
              \E q \in {handleChars(thisParser, chunk, 1,
                                    lengthBeforeCurrentChunk)} :
                  /\ HeldText(q) = ConsumedOf(q, input \o chunk)
                  /\ StartsWith(input \o chunk, StringifiedText(q.out))
    /\ failure.name = "UnexpectedCharError" =>
          failure.position = Len(input) - 1

\* the parser has failed on a character inside an escape sequence, in the
\* second chunk or later, with tokens emitted and raw text in its state
C39_Witness ==
    /\ failure.name = "UnexpectedCharError"
    /\ chunkCount >= 2
    /\ output # <<>>
    /\ Last(state).type = "string_after_backslash_u"
    /\ Len(BufferedText(state)) >= 3

\* C40: the parser emits no token whose rawValue is empty, whatever the
\* input and however it is split into chunks: no empty StringChunk and no
\* empty Whitespace token.
C40_NoTokenIsEmpty ==
    \A i \in DOMAIN output : output[i].rawValue # <<>>

\* the same for the tokens that are no StringChunk
C40_NoTokenButAStringChunkIsEmpty ==
    \A i \in DOMAIN output :
        output[i].type # "STRING_CHUNK" => output[i].rawValue # <<>>

====
